---------------------------- MODULE Spec2Model ----------------------------
(***************************************************************************)
(* Device-abstraction layer of appium-mcp: the session-scoped protocol     *)
(* clients (WebDriverAgent, UiAutomator2Server), the Android backend's      *)
(* fast-path/fallback resolver and the tool handler that drives them.       *)
(*                                                                          *)
(* Network awaits are the only suspension points of the asyncio code, so    *)
(* every action below runs one coroutine from one await to the next.        *)
(***************************************************************************)
EXTENDS Integers, Sequences, FiniteSets, TLC

(***************************************************************************)
(* Bounds of the model.                                                     *)
(***************************************************************************)
MaxWdaTasks == 2
MaxWdaCalls == 2
MaxRobots == 2
MaxToolCalls == 2
MaxDumpLen == 3
MaxIosOps == 2
MaxNodes == 2
MaxScaleOps == 3
MaxCoord == 12
MaxTextLen == 2
MaxImeOps == 2
MaxServerOps == 4
MaxWaitTimeout == 3
MaxLines == 6
MaxCalls == 3
MaxPageCalls == 2

(***************************************************************************)
(* Program constants.                                                       *)
(***************************************************************************)
\* wait_for_server(timeout=10) in AndroidRobot._get_ua2_server
ProbeWaitTimeout == 10
\* `for _ in range(10)` in AndroidRobot._get_ui_automator_dump
DumpAttempts == 10

(***************************************************************************)
(* What the transport can answer to one HTTP request:                       *)
(*   ok        2xx status, body of the expected shape                       *)
(*   non2xx    non-2xx status, JSON error body ({"value": {"error": ..}})   *)
(*   malformed 2xx status, body that is not JSON of the expected shape      *)
(*   error     no response at all (connection failure, timeout)             *)
(***************************************************************************)
Responses == {"ok", "non2xx", "malformed", "error"}

VARIABLES
    wda,        \* coroutine slot -> state of the WebDriverAgent call it runs
    wdaStarted  \* number of client operations called so far

VARIABLES
    robot,      \* the server's current backend: index into robots, 0 = none
    robots,     \* every AndroidRobot instance constructed so far
    tasks,      \* coroutine slot -> state of the backend call it runs
    handler,    \* where handle_call_tool is suspended
    ua2Owner,   \* UiAutomator2 session id -> instance that created it, 0 = no such session
    toolCalls,  \* number of tool calls made so far
    useAppiumEnv \* whether MOBILE_MCP_USE_APPIUM is set for the server process

VARIABLES
    dumpPc,       \* _get_ui_automator_dump: "running", "returned", "raised", "adb_error"
    dumpAttempts, \* number of `uiautomator dump` commands run by the call
    dumpMarkers,  \* how many of them answered with the null-root-node marker
    dumpLast,     \* output of the last command
    dumpRes       \* the string the call returned

VARIABLES
    ios,          \* the coroutine of the IosRobot operation being run
    iosInfoCalls, \* number of `ios info` commands the IosRobot instance has run
    iosOps,       \* number of IosRobot operations called so far
    iosMajor,     \* major iOS version of the device
    iosTunnelUp,  \* whether something listens on the tunnel port
    iosForwardUp, \* whether something listens on the WebDriverAgent port
    iosScale      \* scale the agent reports with its screen size

VARIABLES
    gestureIn,    \* a swipe(direction) call: backend, direction, screen, density
    gestureOut    \* what the call issued

VARIABLES
    elemIn,       \* a UI tree handed to get_elements_on_screen: backend, tree, density
    elemOut       \* transport -> the element list it returned for the tree

VARIABLES
    scaleSt       \* one AndroidRobot: cached scale, `wm density` runs, last operation

VARIABLES
    imeSt         \* the device's input method and the commands of send_keys

VARIABLES
    ua2srv        \* one UiAutomator2Server: tracked process, port-forward, polls

VARIABLES
    shotSt        \* a screenshot capture and what the tool handler made of it

VARIABLES
    simctl        \* Simctl.parse_ios_app_data over the lines read so far

VARIABLES
    dispatch      \* the tool handler's selected backend and its last answer

VARIABLES
    pageSrc       \* app.py: the Appium session's ignoreUnimportantViews setting and the last get_page_source

dumpVars == <<dumpPc, dumpAttempts, dumpMarkers, dumpLast, dumpRes>>
gestureVars == <<gestureIn, gestureOut>>
iosVars == <<ios, iosInfoCalls, iosOps, iosMajor, iosTunnelUp, iosForwardUp, iosScale>>
wdaVars == <<wda, wdaStarted>>
\* the variables of the parts written as functions of one input
unitVars == <<elemIn, elemOut, scaleSt, imeSt, ua2srv, shotSt, simctl, dispatch, pageSrc>>
\* the variables of the clients, the backends and the tool handler
coreVars == <<wda, wdaStarted,
              robot, robots, tasks, handler, ua2Owner, toolCalls, useAppiumEnv,
              dumpPc, dumpAttempts, dumpMarkers, dumpLast, dumpRes,
              ios, iosInfoCalls, iosOps, iosMajor, iosTunnelUp, iosForwardUp, iosScale,
              gestureIn, gestureOut>>
androidVars == <<robot, robots, tasks, handler, ua2Owner, toolCalls, useAppiumEnv>>

vars == <<wda, wdaStarted,
          robot, robots, tasks, handler, ua2Owner, toolCalls, useAppiumEnv,
          dumpPc, dumpAttempts, dumpMarkers, dumpLast, dumpRes,
          ios, iosInfoCalls, iosOps, iosMajor, iosTunnelUp, iosForwardUp, iosScale,
          gestureIn, gestureOut,
          elemIn, elemOut, scaleSt, imeSt, ua2srv, shotSt, simctl, dispatch, pageSrc>>

(***************************************************************************)
(* WebDriverAgent client (src/src/webdriver_agent.py)                       *)
(***************************************************************************)
WdaSlots == 1..MaxWdaTasks

\* functions handed to within_session whose single POST is sent without
\* looking at the response
WdaFireAndForget == {"_tap", "_double_tap", "_long_press", "_send", "_open", "_set"}
\* functions whose response body is read
WdaOps == {"tap", "double_tap", "long_press", "send_keys", "open_url",
           "set_orientation", "get_screen_size", "get_orientation",
           "press_button", "swipe", "swipe_between_points",
           "swipe_from_coordinate"}

\* argument classes that change the control flow of an operation
WdaArgs == {"valid", "invalid", "enter"}

\* what the code of a function does with the response to its request: send
\* and forget, read the body leniently (_press), read a field of the body
\* (_get_size, _get), or check the status and send a second request (_swipe)
WdaShapes == {"forget", "_press", "read", "_swipe"}

WdaShape(fn) ==
    IF fn \in WdaFireAndForget THEN "forget"
    ELSE IF fn \in {"_get_size", "_get"} THEN "read"
    ELSE fn

\* a coroutine slot: fn is the shape of the function within_session runs,
\* next the function the operation runs in a second session ("none" but
\* for swipe), arg the direction class a swipe still has to look at,
\* button the button class press_button was called with ("none" for the
\* other operations), step the number of requests fn has sent, non2xx
\* whether one of the operation's requests was answered with a non-2xx
\* status
WdaIdle == [pc |-> "idle", fn |-> "none", next |-> "none", arg |-> "valid",
            button |-> "none",
            session |-> FALSE, step |-> 0, fnres |-> "notrun", posts |-> 0,
            dels |-> 0, non2xx |-> FALSE, out |-> "none"]

\* the function each operation hands to within_session
WdaFnOf(op, arg) ==
    CASE op = "tap" -> "_tap"
      [] op = "double_tap" -> "_double_tap"
      [] op = "long_press" -> "_long_press"
      [] op = "send_keys" -> "_send"
      [] op = "open_url" -> "_open"
      [] op = "set_orientation" -> "_set"
      [] op = "get_screen_size" -> "_get_size"
      [] op = "get_orientation" -> "_get"
      [] op = "press_button" -> IF arg = "enter" THEN "_send" ELSE "_press"
      [] op = "swipe" -> "_get_size"
      [] OTHER -> "_swipe"

\* the coroutine of operation op(arg) when it enters its first within_session
WdaStart(op, arg) ==
    [WdaIdle EXCEPT !.fn = WdaShape(WdaFnOf(op, arg)),
                    !.next = IF op = "swipe" THEN "_swipe" ELSE "none",
                    !.arg = IF op = "swipe" THEN arg ELSE "valid",
                    !.button = IF op = "press_button" THEN arg ELSE "none"]

\* the argument classes each operation distinguishes: a button name for
\* press_button (supported, ENTER, unsupported), a direction for the
\* direction-driven swipes (supported, unsupported)
WdaArgsOf(op) ==
    CASE op = "press_button" -> {"valid", "enter", "invalid"}
      [] op \in {"swipe", "swipe_from_coordinate"} -> {"valid", "invalid"}
      [] OTHER -> {"valid"}

\* a press_button that hands every button name to the agent
WdaRejectsDirectionOnly(op, arg) ==
    op = "swipe_from_coordinate" /\ arg = "invalid"

\* operations that raise before within_session is entered
WdaRejects(op, arg) ==
    \/ op = "press_button" /\ arg = "invalid"
    \/ op = "swipe_from_coordinate" /\ arg = "invalid"

\* the operation's coroutine has ended, by returning or raising `out`; its
\* locals are gone, what it sent stays on record
WdaFinished(w, out) ==
    [WdaIdle EXCEPT !.pc = "done", !.button = w.button, !.fnres = w.fnres,
                    !.posts = w.posts, !.dels = w.dels,
                    !.non2xx = w.non2xx, !.out = out]

\* create_session: POST /session is on the wire
create_session(w) ==
    [w EXCEPT !.pc = "await_create", !.posts = @ + 1]

\* delete_session: DELETE /session/{id} is on the wire
delete_session(w) ==
    [w EXCEPT !.pc = "await_delete", !.dels = @ + 1]

\* within_session without its `finally`: the session is deleted only when
\* fn returned
within_session_no_finally(w, res) ==
    IF res = "raised"
    THEN WdaFinished([w EXCEPT !.fnres = res], "raised")
    ELSE delete_session([w EXCEPT !.fnres = res])

\* the `finally` of within_session: whatever fn did, delete the session
within_session_finally(w, res) ==
    delete_session([w EXCEPT !.fnres = res])

\* within_session that deletes the session before it runs fn
within_session_delete_first(w) ==
    LET v == [w EXCEPT !.session = TRUE, !.fnres = "running", !.dels = @ + 1] IN
    [v EXCEPT !.pc = "in_fn", !.step = 1]

\* fn(session_url) runs up to its first await: either it raises before any
\* request (swipe with an unsupported direction) or its first
\* session-scoped request is on the wire
within_session_try(w) ==
    LET v == [w EXCEPT !.session = TRUE, !.fnres = "running"] IN
    IF v.fn = "_swipe" /\ v.arg = "invalid"
    THEN [within_session_finally(v, "raised") EXCEPT !.step = 0]
    ELSE [v EXCEPT !.pc = "in_fn", !.step = 1]

\* what fn does with the response to its request number `step`:
\* "return", "raise", or "next" (one more request)
WdaFnStep(fn, step, resp) ==
    IF resp = "error" THEN "raise"
    ELSE IF fn = "forget" THEN "return"
    ELSE IF fn = "_press" THEN (IF resp = "malformed" THEN "raise" ELSE "return")
    ELSE IF fn = "read" THEN (IF resp = "ok" THEN "return" ELSE "raise")
    ELSE \* _swipe: POST actions, check resp.ok, then DELETE actions
         IF step = 1
         THEN (IF resp = "non2xx" THEN "raise" ELSE "next")
         ELSE "return"

\* the coroutine of client operation op(arg) at its first await, or ended
\* if the operation rejected its argument
WdaInvoke(op, arg) ==
    IF WdaRejects(op, arg)
    THEN WdaFinished([WdaIdle EXCEPT !.button =
                         IF op = "press_button" THEN arg ELSE "none"], "raised")
    ELSE create_session(WdaStart(op, arg))

\* the operation has received answer resp to one of its requests
WdaAnswered(w, resp) ==
    [w EXCEPT !.non2xx = @ \/ resp = "non2xx"]

WdaSlotFree(c) == wda[c].pc \in {"idle", "done"}

\* the slots after coroutine c took a step: the records of the other
\* coroutines that had ended before the step are dropped with them
WdaCollect(f, c) ==
    [d \in WdaSlots |-> IF d # c /\ wda[d].pc = "done" THEN WdaIdle ELSE f[d]]

\* a client operation is called; its coroutine takes the first free slot
WDA_call(c, op, arg) ==
    /\ UNCHANGED <<androidVars, dumpVars, iosVars, unitVars, gestureVars>>
    /\ WdaSlotFree(c)
    /\ \A d \in WdaSlots : d < c => ~WdaSlotFree(d)
    /\ wdaStarted < MaxWdaCalls
    /\ arg \in WdaArgsOf(op)
    /\ wda' = WdaCollect([wda EXCEPT ![c] = WdaInvoke(op, arg)], c)
    /\ wdaStarted' = wdaStarted + 1

\* the answer to POST /session arrives
WDA_create_session_response(c, resp) ==
    /\ UNCHANGED <<androidVars, dumpVars, iosVars, unitVars, gestureVars>>
    /\ wda[c].pc = "await_create"
    /\ IF resp = "ok"
       THEN wda' = WdaCollect([wda EXCEPT ![c] = within_session_try(@)], c)
       ELSE wda' = WdaCollect([wda EXCEPT ![c] =
                            WdaFinished(WdaAnswered(@, resp), "raised")], c)
    /\ UNCHANGED wdaStarted

\* the answer to a request of fn arrives
WDA_fn_response(c, resp) ==
    /\ UNCHANGED <<androidVars, dumpVars, iosVars, unitVars, gestureVars>>
    /\ wda[c].pc = "in_fn"
    /\ LET w == WdaAnswered(wda[c], resp)
           r == WdaFnStep(w.fn, w.step, resp)
           v == IF r = "next" THEN [w EXCEPT !.step = @ + 1]
                ELSE within_session_finally(w, IF r = "return" THEN "returned" ELSE "raised")
       IN wda' = WdaCollect([wda EXCEPT ![c] = v], c)
    /\ UNCHANGED wdaStarted

\* the answer to DELETE /session/{id} arrives; swipe() then goes on from its
\* get_screen_size() to within_session(_swipe)
WDA_delete_session_response(c, resp) ==
    /\ UNCHANGED <<androidVars, dumpVars, iosVars, unitVars, gestureVars>>
    /\ wda[c].pc = "await_delete"
    /\ LET w == WdaAnswered(wda[c], resp)
           raised == w.fnres = "raised" \/ resp \in {"malformed", "error"}
       IN wda' = WdaCollect([wda EXCEPT ![c] =
                IF ~raised /\ w.next # "none"
                THEN create_session([WdaIdle EXCEPT !.fn = w.next, !.arg = w.arg,
                                                    !.non2xx = w.non2xx])
                ELSE WdaFinished(w, IF raised THEN "raised" ELSE "returned")], c)
    /\ UNCHANGED wdaStarted

(***************************************************************************)
(* UiAutomator2 client and Android backend                                  *)
(* (src/src/uiautomator2_server.py, src/src/android.py)                     *)
(***************************************************************************)
TaskSlots == {"main", "shot", "elems"}
Ua2Sids == 1..(2 * MaxToolCalls)

\* what a GET /status can lead to inside is_running(): status 200, another
\* status, a connection failure or timeout (absorbed by its `except`), and
\* "raise": an exception that leaves is_running()
StatusOutcomes == {"ok200", "other", "connfail", "raise"}

\* AndroidRobot.__init__
AndroidRobot(use_appium) ==
    [use_appium |-> use_appium, ua2 |-> FALSE, checked |-> FALSE,
     available |-> FALSE, session_id |-> 0, server_process |-> FALSE,
     probes |-> 0, failed |-> FALSE, usedAfterFail |-> FALSE]

TaskIdle == [pc |-> "idle", rb |-> 0, op |-> "none", polls |-> 0, sid |-> 0,
             res |-> "none", probed |-> FALSE, clientRaised |-> FALSE,
             probeRaised |-> FALSE]

\* UiAutomator2Server.is_running: TRUE exactly for status 200
is_running(o) == o = "ok200"

\* the adb shell path of get_screenshot / get_elements_on_screen; the adb
\* commands block the coroutine, so the path runs in one piece
adb_fallback(t, adbOk) ==
    [t EXCEPT !.pc = "done", !.res = IF adbOk THEN "adb" ELSE "raised_adb"]

\* a backend that lets the client's exception through
propagate_client_error(t, adbOk) ==
    [t EXCEPT !.pc = "done", !.res = "raised_client", !.clientRaised = TRUE]

\* `except Exception: pass` around the client call, then the adb path
on_client_error(t, adbOk) ==
    adb_fallback([t EXCEPT !.clientRaised = TRUE], adbOk)

\* UiAutomator2Server.ensure_session as called by a session-scoped
\* operation: reuse the stored id and send the operation's request, or
\* send POST /session
ensure_session(rb, t) ==
    IF rb.session_id # 0
    THEN [rb |-> rb, t |-> [t EXCEPT !.pc = "await_get", !.sid = rb.session_id]]
    ELSE [rb |-> rb, t |-> [t EXCEPT !.pc = "await_create"]]

\* the non-suspending branches of _get_ua2_server: no client ("none"), the
\* cached client ("client"), or the probe has to run ("probe")
get_ua2_server(rb) ==
    IF ~rb.use_appium THEN "none"
    ELSE IF rb.checked THEN (IF rb.available THEN "client" ELSE "none")
    ELSE "probe"

\* a resolver that constructs the client without recording that it checked
begin_probe_unmarked(rb) ==
    [rb EXCEPT !.ua2 = TRUE,
               !.session_id = 0, !.server_process = FALSE,
               !.probes = IF @ < 2 THEN @ + 1 ELSE @]

\* _get_ua2_server up to its first await: mark as checked, construct a
\* fresh client (no session, no server process), send GET /status
\* (probes counts the probes, up to 2)
begin_probe(rb) ==
    [rb EXCEPT !.checked = TRUE, !.ua2 = TRUE,
               !.session_id = 0, !.server_process = FALSE,
               !.probes = IF @ < 2 THEN @ + 1 ELSE @]

\* the probe ended without a usable server
probe_failed(rb, t, adbOk) ==
    [rb |-> [rb EXCEPT !.available = FALSE, !.failed = TRUE],
     t |-> adb_fallback([t EXCEPT !.polls = 0], adbOk)]

\* the probe found the server: cache it and call the client
probe_succeeded(rb, t) ==
    ensure_session([rb EXCEPT !.available = TRUE], [t EXCEPT !.polls = 0])

\* get_screenshot / get_elements_on_screen from its call to its first await
start_call(rb, i, op, adbOk) ==
    LET t == [TaskIdle EXCEPT !.rb = i, !.op = op]
        a == get_ua2_server(rb)
    IN CASE a = "none" -> [rb |-> rb, t |-> adb_fallback(t, adbOk)]
         [] a = "client" ->
              ensure_session([rb EXCEPT !.usedAfterFail = @ \/ rb.failed], t)
         [] OTHER ->
              [rb |-> begin_probe(rb),
               t |-> [t EXCEPT !.pc = "await_status", !.probed = TRUE]]

SlotFree(s) == tasks[s].pc \in {"idle", "done"}

\* mobile_use_device with deviceType "android": the current backend is
\* replaced by a new AndroidRobot, whose use_appium comes from the
\* environment variable MOBILE_MCP_USE_APPIUM
mobile_use_device ==
    /\ handler = "idle"
    /\ Len(robots) < MaxRobots
    /\ robots' = Append(robots, AndroidRobot(useAppiumEnv))
    /\ robot' = Len(robots) + 1
    /\ UNCHANGED <<tasks, handler, ua2Owner, toolCalls, useAppiumEnv>>
    /\ UNCHANGED <<wdaVars, dumpVars, iosVars, unitVars, gestureVars>>

\* mobile_take_screenshot, mobile_save_screenshot and
\* mobile_list_elements_on_screen: one backend call awaited by the handler
\* (mobile_take_screenshot asks for the screen size first)
mobile_single_call(tool, sizeOk, adbOk) ==
    /\ handler = "idle"
    /\ robot # 0
    /\ toolCalls < MaxToolCalls
    /\ SlotFree("main")
    /\ toolCalls' = toolCalls + 1
    /\ IF tool = "mobile_take_screenshot" /\ ~sizeOk
       THEN UNCHANGED <<robots, tasks, handler>>
       ELSE LET op == IF tool = "mobile_list_elements_on_screen" THEN "elems" ELSE "shot"
                s == start_call(robots[robot], robot, op, adbOk)
            IN /\ robots' = [robots EXCEPT ![robot] = s.rb]
               /\ tasks' = [tasks EXCEPT !["main"] = s.t]
               /\ handler' = "main"
    /\ UNCHANGED <<robot, ua2Owner, useAppiumEnv>>
    /\ UNCHANGED <<wdaVars, dumpVars, iosVars, unitVars, gestureVars>>

\* mobile_get_ui_state: three tasks are created and run in creation order
\* up to their first await; the screen-size task only runs adb commands and
\* is finished by then; the handler awaits the tasks one after the other
mobile_get_ui_state(sizeOk, adbShot, adbElems) ==
    /\ handler = "idle"
    /\ robot # 0
    /\ toolCalls < MaxToolCalls
    /\ SlotFree("shot") /\ SlotFree("elems")
    /\ toolCalls' = toolCalls + 1
    /\ LET s1 == start_call(robots[robot], robot, "shot", adbShot)
           s2 == start_call(s1.rb, robot, "elems", adbElems)
       IN /\ robots' = [robots EXCEPT ![robot] = s2.rb]
          /\ tasks' = [tasks EXCEPT !["shot"] = s1.t, !["elems"] = s2.t]
    /\ handler' = IF sizeOk THEN "ui_shot" ELSE "idle"
    /\ UNCHANGED <<robot, ua2Owner, useAppiumEnv>>
    /\ UNCHANGED <<wdaVars, dumpVars, iosVars, unitVars, gestureVars>>

\* the handler's await returns: the awaited call is finished, the handler
\* takes its outcome and the finished coroutine is gone
handle_call_tool_resume ==
    /\ \/ /\ handler = "main" /\ tasks["main"].pc = "done"
          /\ handler' = "idle"
          /\ tasks' = [tasks EXCEPT !["main"] = TaskIdle]
       \/ /\ handler = "ui_shot" /\ tasks["shot"].pc = "done"
          /\ handler' = IF tasks["shot"].res \in {"fast", "adb"} THEN "ui_elems" ELSE "idle"
          /\ tasks' = [tasks EXCEPT !["shot"] = TaskIdle]
       \/ /\ handler = "ui_elems" /\ tasks["elems"].pc = "done"
          /\ handler' = "idle"
          /\ tasks' = [tasks EXCEPT !["elems"] = TaskIdle]
    /\ UNCHANGED <<robot, robots, ua2Owner, toolCalls, useAppiumEnv>>
    /\ UNCHANGED <<wdaVars, dumpVars, iosVars, unitVars, gestureVars>>

SetTask(s, r) ==
    /\ robots' = [robots EXCEPT ![tasks[s].rb] = r.rb]
    /\ tasks' = [tasks EXCEPT ![s] = r.t]

\* _get_ua2_server resumes with the answer of its first is_running()
ua2_status_response(s, o, installed, fwdOk, adbOk) ==
    /\ tasks[s].pc = "await_status"
    /\ LET t == tasks[s]
           rb == robots[t.rb]
       IN IF o = "raise"
          THEN SetTask(s, [rb |-> rb, t |-> [t EXCEPT !.pc = "done",
                              !.res = "raised_client", !.probeRaised = TRUE]])
          ELSE IF is_running(o)
          THEN SetTask(s, probe_succeeded(rb, t))
          ELSE IF ~installed
          THEN SetTask(s, probe_failed(rb, t, adbOk))
          ELSE IF rb.server_process
          THEN SetTask(s, [rb |-> rb, t |-> [t EXCEPT !.pc = "await_poll", !.polls = 1]])
          ELSE IF ~fwdOk
          THEN SetTask(s, probe_failed(rb, t, adbOk))
          ELSE SetTask(s, [rb |-> [rb EXCEPT !.server_process = TRUE],
                           t |-> [t EXCEPT !.pc = "await_poll", !.polls = 1]])
    /\ UNCHANGED <<robot, handler, ua2Owner, toolCalls, useAppiumEnv>>
    /\ UNCHANGED <<wdaVars, dumpVars, iosVars, unitVars, gestureVars>>

\* wait_for_server resumes with the answer of one of its polls
ua2_poll_response(s, o, adbOk) ==
    /\ tasks[s].pc = "await_poll"
    /\ LET t == tasks[s]
           rb == robots[t.rb]
       IN IF o = "raise"
          THEN SetTask(s, probe_failed(rb, t, adbOk))
          ELSE IF is_running(o)
          THEN SetTask(s, probe_succeeded(rb, t))
          ELSE IF t.polls < ProbeWaitTimeout
          THEN SetTask(s, [rb |-> rb, t |-> [t EXCEPT !.polls = @ + 1]])
          ELSE SetTask(s, probe_failed(rb, t, adbOk))
    /\ UNCHANGED <<robot, handler, ua2Owner, toolCalls, useAppiumEnv>>
    /\ UNCHANGED <<wdaVars, dumpVars, iosVars, unitVars, gestureVars>>

\* create_session resumes with the answer to POST /session
ua2_create_session_response(s, resp, adbOk) ==
    /\ tasks[s].pc = "await_create"
    /\ LET t == tasks[s]
           rb == robots[t.rb]
       IN IF resp = "ok"
          THEN \E sid \in Ua2Sids :
                 /\ ua2Owner[sid] = 0
                 /\ \A x \in Ua2Sids : x < sid => ua2Owner[x] # 0
                 /\ ua2Owner' = [ua2Owner EXCEPT ![sid] = t.rb]
                 /\ SetTask(s, [rb |-> [rb EXCEPT !.session_id = sid],
                                t |-> [t EXCEPT !.pc = "await_get", !.sid = sid]])
          ELSE /\ SetTask(s, [rb |-> [rb EXCEPT !.failed = TRUE],
                              t |-> on_client_error(t, adbOk)])
               /\ UNCHANGED ua2Owner
    /\ UNCHANGED <<robot, handler, toolCalls, useAppiumEnv>>
    /\ UNCHANGED <<wdaVars, dumpVars, iosVars, unitVars, gestureVars>>

\* get_screenshot / get_page_source of the client resumes with the answer
\* to its request under /session/{id}
ua2_request_response(s, resp, adbOk) ==
    /\ tasks[s].pc = "await_get"
    /\ LET t == tasks[s]
           rb == robots[t.rb]
       IN IF resp = "ok"
          THEN SetTask(s, [rb |-> rb, t |-> [t EXCEPT !.pc = "done", !.res = "fast"]])
          ELSE SetTask(s, [rb |-> [rb EXCEPT !.failed = TRUE],
                           t |-> on_client_error(t, adbOk)])
    /\ UNCHANGED <<robot, handler, ua2Owner, toolCalls, useAppiumEnv>>
    /\ UNCHANGED <<wdaVars, dumpVars, iosVars, unitVars, gestureVars>>

(***************************************************************************)
(* AndroidRobot._get_ui_automator_dump (src/src/android.py)                 *)
(*                                                                          *)
(* The command output is a string over four symbols: "<" and ">", "t" for   *)
(* any other text, and "N" for an occurrence of the marker                  *)
(* "null root node returned by UiTestAutomationBridge".                     *)
(***************************************************************************)
Dumps == UNION {[1..n -> {"<", ">", "t", "N"}] : n \in 0..MaxDumpLen}

\* `marker in dump`
HasMarker(d) == \E i \in 1..Len(d) : d[i] = "N"

\* dump.find("<"): first index of "<", 0 when there is none
FindOpen(d) ==
    IF \E i \in 1..Len(d) : d[i] = "<"
    THEN CHOOSE i \in 1..Len(d) : d[i] = "<" /\ \A j \in 1..(i - 1) : d[j] # "<"
    ELSE 0

\* dump.rfind(">"): last index of ">", 0 when there is none
RFindClose(d) ==
    IF \E i \in 1..Len(d) : d[i] = ">"
    THEN CHOOSE i \in 1..Len(d) : d[i] = ">" /\ \A j \in (i + 1)..Len(d) : d[j] # ">"
    ELSE 0

\* the trimming of a dump without marker: drop what precedes the first "<",
\* then what follows the last ">" of the rest
TrimDump(d) ==
    IF FindOpen(d) = 0 THEN d
    ELSE LET e == SubSeq(d, FindOpen(d), Len(d)) IN
         IF RFindClose(e) = 0 THEN e ELSE SubSeq(e, 1, RFindClose(e))

\* a loop that gives up at the first marker instead of retrying
dump_iteration_no_retry(n, d) ==
    IF ~HasMarker(d) THEN [pc |-> "returned", res |-> TrimDump(d)]
    ELSE [pc |-> "raised", res |-> << >>]

\* one iteration of the loop on the output d of attempt number n: return
\* the trimmed dump, go round again, or leave the loop and raise
dump_iteration(n, d) ==
    IF ~HasMarker(d) THEN [pc |-> "returned", res |-> TrimDump(d)]
    ELSE IF n < DumpAttempts THEN [pc |-> "running", res |-> << >>]
    ELSE [pc |-> "raised", res |-> << >>]

\* one `adb exec-out uiautomator dump /dev/tty` answers with d
ui_automator_dump_attempt(d) ==
    /\ dumpPc = "running"
    /\ LET n == dumpAttempts + 1
           r == dump_iteration(n, d)
       IN /\ dumpAttempts' = n
          /\ dumpMarkers' = IF HasMarker(d) THEN dumpMarkers + 1 ELSE dumpMarkers
          /\ dumpLast' = d
          /\ dumpPc' = r.pc
          /\ dumpRes' = r.res
    /\ UNCHANGED <<wdaVars, androidVars, iosVars, unitVars, gestureVars>>

\* the adb command itself fails: its exception leaves the function
ui_automator_dump_adb_fails ==
    /\ dumpPc = "running"
    /\ dumpAttempts' = dumpAttempts + 1
    /\ dumpPc' = "adb_error"
    /\ UNCHANGED <<dumpMarkers, dumpLast, dumpRes>>
    /\ UNCHANGED <<wdaVars, androidVars, iosVars, unitVars, gestureVars>>

(***************************************************************************)
(* Physical iOS backend (src/src/ios.py)                                    *)
(***************************************************************************)
\* operations that obtain their client from _wda()
\* and operations that assert the tunnel and then run a go-ios command
IosOperations ==
    WdaOps \cup {"list_apps", "launch_app", "terminate_app", "install_app",
                    "uninstall_app", "get_screenshot"}

\* coordinates a caller passes: a point for the taps and
\* swipe_from_coordinate, two points for swipe_between_points
IosPoints == {<<40, 60>>, <<80, 120>>}
IosGiven(op) ==
    CASE op \in {"tap", "double_tap", "long_press", "swipe_from_coordinate"} -> IosPoints
      [] op = "swipe_between_points" -> {p \o q : p \in IosPoints, q \in IosPoints}
      [] OTHER -> {<< >>}
\* what GET /status can be answered with
StatusAnswers == {"ok200", "other", "connfail", "timeout"}

\* checks lists the checks the operation has run, status and running are
\* the answer to GET /status and what is_running() made of it, given the
\* coordinates of the call and passed those handed to the client; tmpMade
\* counts the temporary files the call created and tmpLeft those that exist
\* when it ends
IosIdle == [pc |-> "idle", op |-> "none", arg |-> "valid", given |-> << >>,
            passed |-> << >>, checks |-> << >>, status |-> "none",
            running |-> "none", err |-> "none", out |-> "none",
            tmpMade |-> 0, tmpLeft |-> 0]

\* the body of the `try` of is_running: the comparison of the status, or
\* the exception of a connection failure or timeout
is_running_try(ans) ==
    IF ans \in {"connfail", "timeout"} THEN "exception"
    ELSE IF ans = "ok200" THEN "true" ELSE "false"

\* is_running without its `except`
WebDriverAgent_is_running_no_except(ans) ==
    IF is_running_try(ans) = "exception" THEN "raised" ELSE is_running_try(ans)

\* WebDriverAgent.is_running: `except Exception` turns the exception into False
WebDriverAgent_is_running(ans) ==
    IF is_running_try(ans) = "exception" THEN "false" ELSE is_running_try(ans)

\* _is_tunnel_required, given the major version `ios info` reported
is_tunnel_required(major) == major >= 17

\* _assert_tunnel_running: run `ios info` (infoOk: the command succeeds),
\* then look at the tunnel port if the version asks for it
assert_tunnel_running(infoOk) ==
    IF ~infoOk THEN [checks |-> <<"info">>, err |-> "cli_error"]
    ELSE IF ~is_tunnel_required(iosMajor) THEN [checks |-> <<"info">>, err |-> "none"]
    ELSE [checks |-> <<"info", "tunnel">>,
          err |-> IF iosTunnelUp THEN "none" ELSE "tunnel_missing"]

\* a _wda() that looks at the forwarded port before the tunnel
wda_forward_first(infoOk) ==
    IF ~iosForwardUp THEN [checks |-> <<"forward">>, err |-> "forward_missing"]
    ELSE LET t == assert_tunnel_running(infoOk) IN
         IF t.err # "none" THEN [checks |-> <<"forward">> \o t.checks, err |-> t.err]
         ELSE [checks |-> <<"forward">> \o t.checks \o <<"status">>, err |-> "none"]

\* _wda() up to its await of is_running(): tunnel, then forwarded port, then
\* GET /status is sent
wda_preconditions(infoOk) ==
    LET t == assert_tunnel_running(infoOk) IN
    IF t.err # "none" THEN t
    ELSE IF ~iosForwardUp
         THEN [checks |-> Append(t.checks, "forward"), err |-> "forward_missing"]
         ELSE [checks |-> t.checks \o <<"forward", "status">>, err |-> "none"]

\* a get_screenshot that unlinks the file after the read instead of in a
\* `finally`
get_screenshot_unlink_after_read(cliOk, readOk) ==
    LET created == 1
        tried == IF ~cliOk THEN "cli_error" ELSE IF ~readOk THEN "read_error" ELSE "none"
    IN [err |-> tried, out |-> IF tried = "none" THEN "returned" ELSE "raised",
        tmpMade |-> created,
        tmpLeft |-> IF tried = "none" THEN created - 1 ELSE created]

\* IosRobot.get_screenshot after the tunnel check: NamedTemporaryFile(delete=
\* False) creates the file; the `try` runs the go-ios command (cliOk) and
\* reads the file (readOk); the `finally` unlinks it
IosRobot_get_screenshot(cliOk, readOk) ==
    LET created == 1
        tried == IF ~cliOk THEN "cli_error" ELSE IF ~readOk THEN "read_error" ELSE "none"
        unlinked == created - 1
    IN [err |-> tried, out |-> IF tried = "none" THEN "returned" ELSE "raised",
        tmpMade |-> created, tmpLeft |-> unlinked]

\* an IosRobot that converts the coordinates with the agent's scale
IosPassedArgsScaled(given) == [i \in DOMAIN given |-> given[i] \div iosScale]

\* IosRobot.tap / swipe_between_points / ...: the arguments handed to the
\* client operation
IosPassedArgs(given) == given

\* an IosRobot operation is called and runs to its first await; the go-ios
\* commands and the port checks block the coroutine (cliOk: the go-ios
\* command of a command-line operation succeeds)
ios_call(op, arg, given, infoOk, cliOk) ==
    /\ ios.pc \in {"idle", "done"}
    /\ iosOps < MaxIosOps
    /\ arg \in (IF op \in WdaOps THEN WdaArgsOf(op) ELSE {"valid"})
    /\ given \in IosGiven(op)
    /\ op \in WdaOps => cliOk
    /\ LET t == IF op \in WdaOps THEN wda_preconditions(infoOk)
                ELSE assert_tunnel_running(infoOk)
           call == [IosIdle EXCEPT !.op = op, !.arg = arg, !.given = given,
                                   !.checks = t.checks, !.err = t.err]
       IN IF t.err # "none"
          THEN ios' = [call EXCEPT !.pc = "done", !.out = "raised"]
          ELSE IF op \in WdaOps
          THEN ios' = [call EXCEPT !.pc = "await_status"]
          ELSE IF op = "get_screenshot"
          THEN \E readOk \in BOOLEAN :
                  LET r == IosRobot_get_screenshot(cliOk, readOk) IN
                  ios' = [call EXCEPT !.pc = "done", !.err = r.err, !.out = r.out,
                                      !.tmpMade = r.tmpMade, !.tmpLeft = r.tmpLeft]
          ELSE ios' = [call EXCEPT !.pc = "done",
                                   !.err = IF cliOk THEN "none" ELSE "cli_error",
                                   !.out = IF cliOk THEN "returned" ELSE "raised"]
    /\ iosInfoCalls' = iosInfoCalls + 1
    /\ iosOps' = iosOps + 1
    /\ UNCHANGED <<iosMajor, iosTunnelUp, iosForwardUp, iosScale>>
    /\ UNCHANGED <<wdaVars, androidVars, dumpVars, gestureVars, unitVars>>

\* the answer to the GET /status of _wda() arrives: the operation raises, or
\* calls the client operation with its arguments
ios_status_response(ans) ==
    /\ ios.pc = "await_status"
    /\ LET r == WebDriverAgent_is_running(ans)
           v == [ios EXCEPT !.status = ans, !.running = r]
       IN IF r = "true"
          THEN /\ ios' = [v EXCEPT !.pc = "in_wda", !.passed = IosPassedArgs(v.given)]
               /\ wda' = [wda EXCEPT ![1] = WdaInvoke(v.op, v.arg)]
          ELSE /\ ios' = [v EXCEPT !.pc = "done", !.out = "raised",
                             !.err = IF r = "false" THEN "agent_not_running"
                                     ELSE "status_raised"]
               /\ UNCHANGED wda
    /\ UNCHANGED <<iosInfoCalls, iosOps, iosMajor, iosTunnelUp, iosForwardUp, iosScale>>
    /\ UNCHANGED <<wdaStarted, androidVars, dumpVars, gestureVars, unitVars>>

\* the client operation has ended: the IosRobot operation ends the same way
ios_return ==
    /\ ios.pc = "in_wda"
    /\ wda[1].pc = "done"
    /\ ios' = [ios EXCEPT !.pc = "done", !.out = wda[1].out,
                          !.err = IF wda[1].out = "raised" THEN "client_error" ELSE "none"]
    /\ wda' = [wda EXCEPT ![1] = WdaIdle]
    /\ UNCHANGED <<iosInfoCalls, iosOps, iosMajor, iosTunnelUp, iosForwardUp, iosScale>>
    /\ UNCHANGED <<wdaStarted, androidVars, dumpVars, gestureVars, unitVars>>

(***************************************************************************)
(* swipe(direction) of the Android backend and of the WebDriverAgent client *)
(* (src/src/android.py, src/src/webdriver_agent.py)                         *)
(***************************************************************************)
SwipeDirections == {"up", "down", "left", "right"}
\* "diagonal" stands for every string that is no SwipeDirection
Directions == SwipeDirections \cup {"diagonal"}

BASE_DENSITY == 160
\* `wm size` of the Android device, in pixels
PixelSizes == {<<1000, 2000>>, <<1080, 1920>>, <<1440, 3120>>, <<720, 1280>>}

\* a swipe on an Android device of some density, or through the agent, which
\* reports its screen size in points
GestureInputs ==
    {[backend |-> "android", dir |-> d, width |-> p[1], height |-> p[2],
      density |-> n] :
        d \in Directions, p \in PixelSizes, n \in {160, 320, 420, 480}}
    \cup
    {[backend |-> "wda", dir |-> d, width |-> p[1], height |-> p[2],
      density |-> BASE_DENSITY] :
        d \in Directions,
        p \in {<<1000, 1000>>, <<1000, 2000>>, <<375, 667>>, <<390, 844>>}}

GestureNone == [raised |-> FALSE, cmds |-> << >>]

\* int(v * 0.t) of the code, for a non-negative integer v and t tenths
IntTenths(v, t) == (v * t) \div 10

\* int(v * scale) with scale = density / 160
ToPixels(v, density) == (v * density) \div BASE_DENSITY

\* int(px / scale) with scale = density / 160
ToLogical(px, density) == (px * BASE_DENSITY) \div density

\* AndroidRobot.get_screen_size: the logical size of a `wm size` answer
AndroidRobot_get_screen_size(pw, ph, density) ==
    [width |-> ToLogical(pw, density), height |-> ToLogical(ph, density)]

\* a swipe that runs the other way round
AndroidRobot_swipe_reversed(size, density, direction) ==
    LET cx == size.width \div 2
        cy == size.height \div 2
        p == CASE direction = "up" -> <<cx, IntTenths(size.height, 2), cx, IntTenths(size.height, 8)>>
               [] direction = "down" -> <<cx, IntTenths(size.height, 8), cx, IntTenths(size.height, 2)>>
               [] direction = "left" -> <<IntTenths(size.width, 2), cy, IntTenths(size.width, 8), cy>>
               [] direction = "right" -> <<IntTenths(size.width, 8), cy, IntTenths(size.width, 2), cy>>
               [] OTHER -> << >>
    IN IF p = << >> THEN [raised |-> TRUE, cmds |-> << >>]
       ELSE [raised |-> FALSE,
             cmds |-> << <<"input", "swipe", ToPixels(p[1], density),
                           ToPixels(p[2], density), ToPixels(p[3], density),
                           ToPixels(p[4], density), 1000>> >>]

\* AndroidRobot.swipe after get_screen_size() returned `size`: the adb shell
\* commands it runs, or the ActionableError of an unsupported direction
AndroidRobot_swipe(size, density, direction) ==
    LET cx == size.width \div 2
        cy == size.height \div 2
        p == CASE direction = "up" -> <<cx, IntTenths(size.height, 8), cx, IntTenths(size.height, 2)>>
               [] direction = "down" -> <<cx, IntTenths(size.height, 2), cx, IntTenths(size.height, 8)>>
               [] direction = "left" -> <<IntTenths(size.width, 8), cy, IntTenths(size.width, 2), cy>>
               [] direction = "right" -> <<IntTenths(size.width, 2), cy, IntTenths(size.width, 8), cy>>
               [] OTHER -> << >>
    IN IF p = << >> THEN [raised |-> TRUE, cmds |-> << >>]
       ELSE [raised |-> FALSE,
             cmds |-> << <<"input", "swipe", ToPixels(p[1], density),
                           ToPixels(p[2], density), ToPixels(p[3], density),
                           ToPixels(p[4], density), 1000>> >>]

\* a _swipe that travels the whole 60% on each side of the centre
WebDriverAgent_swipe_full_distance(size, direction) ==
    LET vd == IntTenths(size.height, 6)
        hd == IntTenths(size.width, 6)
        cx == size.width \div 2
        cy == size.height \div 2
        p == CASE direction = "up" -> <<cx, cy + vd, cx, cy - vd>>
               [] direction = "down" -> <<cx, cy - vd, cx, cy + vd>>
               [] direction = "left" -> <<cx + hd, cy, cx - hd, cy>>
               [] direction = "right" -> <<cx - hd, cy, cx + hd, cy>>
               [] OTHER -> << >>
    IN IF p = << >> THEN [raised |-> TRUE, cmds |-> << >>]
       ELSE [raised |-> FALSE, cmds |-> << <<"pointer", p[1], p[2], p[3], p[4]>> >>]

\* _swipe of WebDriverAgent.swipe after get_screen_size() returned `size`:
\* the pointer drag it posts (start x, start y, end x, end y), or the
\* ActionableError of an unsupported direction
WebDriverAgent_swipe(size, direction) ==
    LET vd == IntTenths(size.height, 6)
        hd == IntTenths(size.width, 6)
        cx == size.width \div 2
        cy == size.height \div 2
        p == CASE direction = "up" -> <<cx, cy + vd \div 2, cx, cy - vd \div 2>>
               [] direction = "down" -> <<cx, cy - vd \div 2, cx, cy + vd \div 2>>
               [] direction = "left" -> <<cx + hd \div 2, cy, cx - hd \div 2, cy>>
               [] direction = "right" -> <<cx - hd \div 2, cy, cx + hd \div 2, cy>>
               [] OTHER -> << >>
    IN IF p = << >> THEN [raised |-> TRUE, cmds |-> << >>]
       ELSE [raised |-> FALSE, cmds |-> << <<"pointer", p[1], p[2], p[3], p[4]>> >>]

\* AndroidRobot.swipe(direction) is called
android_swipe ==
    /\ gestureIn.backend = "android"
    /\ gestureOut = GestureNone
    /\ gestureOut' = AndroidRobot_swipe(
           AndroidRobot_get_screen_size(gestureIn.width, gestureIn.height,
                                        gestureIn.density),
           gestureIn.density, gestureIn.dir)
    /\ UNCHANGED <<gestureIn, wdaVars, androidVars, dumpVars, iosVars, unitVars>>

\* WebDriverAgent.swipe(direction) is called
wda_swipe ==
    /\ gestureIn.backend = "wda"
    /\ gestureOut = GestureNone
    /\ gestureOut' = WebDriverAgent_swipe(
           [width |-> gestureIn.width, height |-> gestureIn.height], gestureIn.dir)
    /\ UNCHANGED <<gestureIn, wdaVars, androidVars, dumpVars, iosVars, unitVars>>

(***************************************************************************)
(* Element lists: AndroidRobot._collect_elements (shell dump),              *)
(* UiAutomator2Server._parse_xml_elements and                               *)
(* WebDriverAgent._filter_source_elements                                   *)
(* (src/src/android.py, src/src/uiautomator2_server.py,                     *)
(* src/src/webdriver_agent.py)                                              *)
(*                                                                          *)
(* A tree is a root that no filter accepts (<hierarchy>, the Application   *)
(* element) over a sequence of nodes: each the only child of the one        *)
(* before it (nested) or all children of the root.  `bounds` is what the    *)
(* pattern "[l,t][r,b]" matched, << >> when it did not match.               *)
(***************************************************************************)
\* Python's None: the attribute or field is absent
None == "None"

\* truth value of an optional string
Truthy(v) == v # None /\ v # ""

\* Python's `a or b`
PyOr(a, b) == IF Truthy(a) THEN a ELSE b

AndroidNode(text, desc, hint, rid, bounds) ==
    [text |-> text, desc |-> desc, hint |-> hint, rid |-> rid, bounds |-> bounds]

\* nodes of an Android UI XML tree: every combination of text, content-desc
\* and hint, with and without a resource-id, and the bounds that are
\* unparsable, of zero area, and of zero area once divided by a scale of 2
AndroidNodes ==
    {AndroidNode(t, d, h, None, <<2, 2, 6, 10>>) :
        t \in {None, "", "t"}, d \in {None, "d"}, h \in {None, "h"}}
    \cup {AndroidNode(t, None, None, "r", <<2, 2, 6, 10>>) : t \in {None, "t"}}
    \cup {AndroidNode("t", None, None, None, b) :
        b \in {<< >>, <<4, 4, 4, 8>>, <<0, 0, 1, 4>>}}

SourceTreeElement(type, visible, label, name, rid, rect) ==
    [type |-> type, is_visible |-> visible, label |-> label, name |-> name,
     raw_identifier |-> rid, rect |-> rect]

\* elements of a WebDriverAgent source tree
SourceNodes ==
    {SourceTreeElement("Button", "1", l, n, r,
                       [x |-> 2, y |-> 2, width |-> 4, height |-> 8]) :
        l \in {None, "l"}, n \in {None, "n"}, r \in {None, "r"}}
    \cup {SourceTreeElement("Other", "1", "l", None, None,
                            [x |-> 2, y |-> 2, width |-> 4, height |-> 8]),
          SourceTreeElement("Button", "0", "l", None, None,
                            [x |-> 2, y |-> 2, width |-> 4, height |-> 8]),
          SourceTreeElement("Button", "1", "l", None, None,
                            [x |-> 0 - 2, y |-> 2, width |-> 4, height |-> 8]),
          SourceTreeElement("Button", "1", "l", None, None,
                            [x |-> 2, y |-> 2, width |-> 0, height |-> 0])}

\* a tree is the sequence of its nodes below the root, either siblings or
\* (nested) each the only child of the one before
ElemInputs ==
    LET TreesOver(nodes) ==
            {[nodes |-> q, nested |-> b] :
                q \in UNION {[1..n -> nodes] : n \in 0..MaxNodes}, b \in BOOLEAN}
    IN  {[backend |-> "android", tree |-> t, density |-> n] :
            t \in {u \in TreesOver(AndroidNodes) : Len(u.nodes) >= 2 \/ ~u.nested},
            n \in {160, 320}}
        \cup
        {[backend |-> "wda", tree |-> t, density |-> BASE_DENSITY] :
            t \in {u \in TreesOver(SourceNodes) : Len(u.nodes) >= 2 \/ ~u.nested}}

ScreenElement(type, text, label, name, identifier, rect) ==
    [type |-> type, text |-> text, label |-> label, name |-> name,
     identifier |-> identifier, rect |-> rect]

\* AndroidRobot._get_screen_element_rect: the bounds in logical units
get_screen_element_rect(node, density) ==
    IF node.bounds = << >>
    THEN [x |-> 0, y |-> 0, width |-> 0, height |-> 0]
    ELSE LET b == node.bounds IN
         [x |-> ToLogical(b[1], density), y |-> ToLogical(b[2], density),
          width |-> ToLogical(b[3] - b[1], density),
          height |-> ToLogical(b[4] - b[2], density)]

\* the "current node" part of _collect_elements that accepts hint-less
\* nodes only
collect_node_no_label_test(node, density) ==
    LET rect == get_screen_element_rect(node, density) IN
    IF rect.width > 0 /\ rect.height > 0
    THEN << ScreenElement("text", node.text,
                          PyOr(PyOr(node.desc, node.hint), ""), None,
                          IF Truthy(node.rid) THEN node.rid ELSE None, rect) >>
    ELSE << >>

\* the "current node" part of AndroidRobot._collect_elements
collect_node(node, density) ==
    IF Truthy(node.text) \/ Truthy(node.desc) \/ Truthy(node.hint)
    THEN LET rect == get_screen_element_rect(node, density) IN
         IF rect.width > 0 /\ rect.height > 0
         THEN << ScreenElement("text", node.text,
                               PyOr(PyOr(node.desc, node.hint), ""), None,
                               IF Truthy(node.rid) THEN node.rid ELSE None, rect) >>
         ELSE << >>
    ELSE << >>

\* AndroidRobot._collect_elements below the root: children first, then the
\* node itself
RECURSIVE collect_elements(_, _, _)
collect_elements(nodes, nested, density) ==
    IF nodes = << >> THEN << >>
    ELSE IF nested
         THEN collect_elements(Tail(nodes), nested, density)
                  \o collect_node(Head(nodes), density)
         ELSE collect_node(Head(nodes), density)
                  \o collect_elements(Tail(nodes), nested, density)

\* UiAutomator2Server._parse_xml_elements below the root: the node, then its
\* children
RECURSIVE parse_xml_elements(_)
parse_xml_elements(nodes) ==
    LET \* its parse_node, without the children
        parse_node(node) ==
            IF Truthy(node.text) \/ Truthy(node.desc)
            THEN IF node.bounds # << >>
                 THEN LET b == node.bounds IN
                      << ScreenElement("text", node.text, PyOr(node.desc, ""), None,
                                       IF Truthy(node.rid) THEN node.rid ELSE None,
                                       [x |-> b[1], y |-> b[2],
                                        width |-> b[3] - b[1],
                                        height |-> b[4] - b[2]]) >>
                 ELSE << >>
            ELSE << >>
    IN  IF nodes = << >> THEN << >>
        ELSE parse_node(Head(nodes)) \o parse_xml_elements(Tail(nodes))

\* WebDriverAgent._filter_source_elements below the root: the element, then
\* its children
RECURSIVE filter_source_elements(_)
filter_source_elements(nodes) ==
    LET \* WebDriverAgent._is_visible
        is_visible(rect) == rect.x >= 0 /\ rect.y >= 0
        accepted_types == {"TextField", "Button", "Switch", "Icon", "SearchField",
                           "StaticText", "Image"}
        \* the "current element" part of the function
        filter_source_element(source) ==
            IF /\ source.type \in accepted_types
               /\ source.is_visible = "1" /\ is_visible(source.rect)
               /\ \/ Truthy(source.label) \/ Truthy(source.name)
                  \/ Truthy(source.raw_identifier)
            THEN << ScreenElement(source.type, None, source.label, source.name,
                                  source.raw_identifier, source.rect) >>
            ELSE << >>
    IN  IF nodes = << >> THEN << >>
        ELSE filter_source_element(Head(nodes))
                 \o filter_source_elements(Tail(nodes))

\* AndroidRobot.get_elements_on_screen over the adb dump
android_get_elements_on_screen ==
    /\ elemIn.backend = "android"
    /\ elemOut.shell = None
    /\ elemOut' = [elemOut EXCEPT !.shell =
           collect_elements(elemIn.tree.nodes, elemIn.tree.nested, elemIn.density)]
    /\ UNCHANGED <<elemIn, coreVars, scaleSt, imeSt, ua2srv, shotSt, simctl, dispatch, pageSrc>>

\* AndroidRobot.get_elements_on_screen over the UiAutomator2 client, which
\* hands on the client's list as it is
ua2_get_elements_on_screen ==
    /\ elemIn.backend = "android"
    /\ elemOut.ua2 = None
    /\ elemOut' = [elemOut EXCEPT !.ua2 = parse_xml_elements(elemIn.tree.nodes)]
    /\ UNCHANGED <<elemIn, coreVars, scaleSt, imeSt, ua2srv, shotSt, simctl, dispatch, pageSrc>>

\* WebDriverAgent.get_elements_on_screen
wda_get_elements_on_screen ==
    /\ elemIn.backend = "wda"
    /\ elemOut.wda = None
    /\ elemOut' = [elemOut EXCEPT !.wda = filter_source_elements(elemIn.tree.nodes)]
    /\ UNCHANGED <<elemIn, coreVars, scaleSt, imeSt, ua2srv, shotSt, simctl, dispatch, pageSrc>>

(***************************************************************************)
(* Density, scale and coordinate conversion of one AndroidRobot, and        *)
(* get_screen_size of the three transports                                  *)
(* (src/src/android.py, src/src/uiautomator2_server.py,                     *)
(* src/src/webdriver_agent.py)                                              *)
(*                                                                          *)
(* A scale is kept as the density it stands for: scale = scale160 / 160.    *)
(***************************************************************************)
\* `wm density` gave no line with a parsable density, or adb failed
Unreadable == 0
\* densities a device reports (ldpi 120 ... xxhdpi 480)
DensityAnswers == {Unreadable, 120, 160, 213, 320, 420, 480}

ScaleNoOp == [op |-> "none", read |-> 0 - 1, scale160 |-> 0, x |-> 0, px |-> 0,
              back |-> 0, width |-> 0, height |-> 0]

\* AndroidRobot._get_density when `wm density` answers ans
get_density(ans) == IF ans = Unreadable THEN BASE_DENSITY ELSE ans

\* _get_scale that asks the device every time
get_scale_uncached(st, ans) ==
    [st EXCEPT !.cached = get_density(ans),
               !.queries = @ + 1,
               !.readOk = @ \/ ans # Unreadable,
               !.last = [ScaleNoOp EXCEPT !.read = ans]]

\* AndroidRobot._get_scale: the instance after the call; last.read is the
\* answer of the device if it was asked, -1 if not
get_scale(st, ans) ==
    IF st.cached = 0
    THEN [st EXCEPT !.cached = get_density(ans),
                    !.queries = @ + 1,
                    !.readOk = @ \/ ans # Unreadable,
                    !.last = [ScaleNoOp EXCEPT !.read = ans]]
    ELSE [st EXCEPT !.last = ScaleNoOp]

\* a tap that sends the logical coordinate as it is
AndroidRobot_tap_unscaled(x, density) == x

\* AndroidRobot.tap: the pixel coordinate of `input tap`
AndroidRobot_tap(x, density) == ToPixels(x, density)

\* AndroidRobot.tap(x, _)
android_tap(x, ans) ==
    /\ scaleSt.ops < MaxScaleOps
    /\ LET st == get_scale(scaleSt, ans) IN
       scaleSt' = [st EXCEPT !.ops = @ + 1,
                             !.last.op = "tap", !.last.scale160 = st.cached,
                             !.last.x = x,
                             !.last.px = AndroidRobot_tap(x, st.cached)]
    /\ UNCHANGED <<coreVars, elemIn, elemOut, imeSt, ua2srv, shotSt, simctl, dispatch, pageSrc>>

\* _get_screen_element_rect for a node whose left edge is the pixel the
\* last tap went to
android_element_rect(ans) ==
    /\ scaleSt.ops < MaxScaleOps
    /\ scaleSt.last.op = "tap"
    /\ LET st == get_scale(scaleSt, ans)
           node == AndroidNode("t", None, None, None,
                               <<scaleSt.last.px, 0, scaleSt.last.px + 8, 8>>)
       IN scaleSt' = [st EXCEPT !.ops = @ + 1,
                                !.last.op = "rect", !.last.scale160 = st.cached,
                                !.last.x = scaleSt.last.x,
                                !.last.px = scaleSt.last.px,
                                !.last.back = get_screen_element_rect(node, st.cached).x]
    /\ UNCHANGED <<coreVars, elemIn, elemOut, imeSt, ua2srv, shotSt, simctl, dispatch, pageSrc>>

\* AndroidRobot.get_screen_size with a parsable `wm size` answer
android_get_screen_size(p, ans) ==
    /\ scaleSt.ops < MaxScaleOps
    /\ LET st == get_scale(scaleSt, ans)
           size == AndroidRobot_get_screen_size(p[1], p[2], st.cached)
       IN scaleSt' = [st EXCEPT !.ops = @ + 1,
                                !.last.op = "android_size",
                                !.last.scale160 = st.cached,
                                !.last.width = size.width,
                                !.last.height = size.height]
    /\ UNCHANGED <<coreVars, elemIn, elemOut, imeSt, ua2srv, shotSt, simctl, dispatch, pageSrc>>

\* UiAutomator2Server.get_screen_size with a 200 answer: scale is 1.0
ua2_get_screen_size(value) ==
    /\ scaleSt.ops < MaxScaleOps
    /\ scaleSt' = [scaleSt EXCEPT !.ops = @ + 1,
                                  !.last = [ScaleNoOp EXCEPT !.op = "ua2_size",
                                                !.scale160 = BASE_DENSITY,
                                                !.width = value.width,
                                                !.height = value.height]]
    /\ UNCHANGED <<coreVars, elemIn, elemOut, imeSt, ua2srv, shotSt, simctl, dispatch, pageSrc>>

\* WebDriverAgent.get_screen_size with a parsable answer: scale is
\* value.get("scale", 1)
wda_get_screen_size(value) ==
    /\ scaleSt.ops < MaxScaleOps
    /\ scaleSt' = [scaleSt EXCEPT !.ops = @ + 1,
                                  !.last = [ScaleNoOp EXCEPT !.op = "wda_size",
                                                !.scale160 = BASE_DENSITY *
                                                    (IF value.scale = 0 THEN 1 ELSE value.scale),
                                                !.width = value.width,
                                                !.height = value.height]]
    /\ UNCHANGED <<coreVars, elemIn, elemOut, imeSt, ua2srv, shotSt, simctl, dispatch, pageSrc>>

(***************************************************************************)
(* PNG validation of a captured screenshot in the tool handler              *)
(* (src/src/png.py, src/src/server.py)                                      *)
(*                                                                          *)
(* A capture is the sequence of its first bytes.                            *)
(***************************************************************************)
png_signature == <<137, 80, 78, 71, 13, 10, 26, 10>>

\* what get_screenshot can hand over: PNG headers with every pair of
\* dimension fields, "IAMADUCK", a JPEG header, a PNG cut off inside IHDR,
\* nothing at all
Captures ==
    LET \* length and type of the IHDR chunk: bytes 8..15 of a PNG
        IhdrHead == <<0, 0, 0, 13, 73, 72, 68, 82>>
        \* four-byte big-endian fields: 0, 1, 256 and 1080
        DimBytes == {<<0, 0, 0, 0>>, <<0, 0, 0, 1>>, <<0, 0, 1, 0>>, <<0, 0, 4, 56>>}
    IN  {png_signature \o IhdrHead \o w \o h \o <<8, 2>> :
            w \in DimBytes, h \in DimBytes}
        \cup {<<73, 65, 77, 65, 68, 85, 67, 75>>,
              <<255, 216, 255, 224, 0, 16, 74, 70, 73, 70>>,
              png_signature \o IhdrHead \o <<0, 0>>,
              << >>}

\* Python's buffer[lo:hi]
Slice(buffer, lo, hi) ==
    SubSeq(buffer, lo + 1, IF hi < Len(buffer) THEN hi ELSE Len(buffer))

\* struct.unpack('>I', b)[0]: 0 - 1 stands for struct.error (b is not 4 bytes)
unpack_I(b) ==
    IF Len(b) # 4 THEN 0 - 1
    ELSE ((b[1] * 256 + b[2]) * 256 + b[3]) * 256 + b[4]

\* PNG.get_dimensions
get_dimensions(buffer) ==
    IF Slice(buffer, 0, 8) # png_signature
    THEN [raised |-> "ValueError", width |-> 0, height |-> 0]
    ELSE LET width == unpack_I(Slice(buffer, 16, 20))
             height == unpack_I(Slice(buffer, 20, 24))
         IN IF width < 0 \/ height < 0
            THEN [raised |-> "struct.error", width |-> 0, height |-> 0]
            ELSE [raised |-> "none", width |-> width, height |-> height]

\* the resize tools of the host: each is absent, installed and failing on the
\* image, or installed and working
ToolStates == {"absent", "fails", "ok"}

\* is_scaling_available(): is_imagemagick_installed() or is_sips_installed()
is_scaling_available(sips, magick) == magick # "absent" \/ sips # "absent"

\* ImageTransformer.to_buffer: sips when installed, then ImageMagick, then
\* RuntimeError; "jpeg" stands for the transformed bytes
to_buffer(sips, magick) ==
    IF sips = "ok" THEN "jpeg"
    ELSE IF magick = "ok" THEN "jpeg"
    ELSE "RuntimeError"

ShotNone == [pc |-> "none", tool |-> "none", capture |-> << >>, scaling |-> FALSE,
             sips |-> "absent", magick |-> "absent",
             jpgPath |-> FALSE, raised |-> "none", content |-> "none",
             image |-> << >>, mime |-> "none", optimized |-> FALSE, saved |-> FALSE]

\* a handler branch that goes on without testing the dimensions
screenshot_branch_unvalidated(st) ==
    LET png_size == get_dimensions(st.capture) IN
    IF png_size.raised # "none"
    THEN [st EXCEPT !.pc = "done", !.raised = png_size.raised, !.content = "text"]
    ELSE IF (st.scaling /\ (st.tool = "mobile_save_screenshot" => st.jpgPath))
              /\ to_buffer(st.sips, st.magick) = "RuntimeError"
         THEN [st EXCEPT !.pc = "done", !.raised = "RuntimeError", !.content = "text"]
         ELSE IF st.tool = "mobile_save_screenshot"
              THEN [st EXCEPT !.pc = "done", !.content = "text", !.saved = TRUE,
                              !.optimized = st.jpgPath /\ st.scaling]
              ELSE [st EXCEPT !.pc = "done", !.content = "image",
                              !.image = st.capture, !.optimized = st.scaling,
                              !.mime = IF st.scaling THEN "image/jpeg"
                                       ELSE "image/png"]

\* the branches of handle_call_tool for the three screenshot tools, from the
\* capture on, with the handler's two `except` clauses: an exception ends
\* the call with a text content
screenshot_branch(st) ==
    LET png_size == get_dimensions(st.capture) IN
    IF png_size.raised # "none"
    THEN [st EXCEPT !.pc = "done", !.raised = png_size.raised, !.content = "text"]
    ELSE IF png_size.width <= 0 \/ png_size.height <= 0
         THEN [st EXCEPT !.pc = "done", !.raised = "ActionableError: retry",
                         !.content = "text"]
         \* the optimisation: to_buffer() is called inside no try of its own
         ELSE IF (st.scaling /\ (st.tool = "mobile_save_screenshot" => st.jpgPath))
                   /\ to_buffer(st.sips, st.magick) = "RuntimeError"
              THEN [st EXCEPT !.pc = "done", !.raised = "RuntimeError",
                              !.content = "text"]
              ELSE IF st.tool = "mobile_save_screenshot"
                   THEN [st EXCEPT !.pc = "done", !.content = "text", !.saved = TRUE,
                                   !.optimized = st.jpgPath /\ st.scaling]
                   ELSE [st EXCEPT !.pc = "done", !.content = "image",
                                   !.image = st.capture, !.optimized = st.scaling,
                                   !.mime = IF st.scaling THEN "image/jpeg"
                                            ELSE "image/png"]

\* handle_call_tool resumes with the capture of get_screenshot()
handle_call_tool_screenshot ==
    /\ shotSt.pc = "captured"
    /\ shotSt' = screenshot_branch(shotSt)
    /\ UNCHANGED <<coreVars, elemIn, elemOut, scaleSt, imeSt, ua2srv, simctl, dispatch, pageSrc>>

(***************************************************************************)
(* AndroidRobot.send_keys and the device's input method                     *)
(* (src/src/android.py)                                                     *)
(*                                                                          *)
(* A text is the sequence of its code points.                               *)
(***************************************************************************)
UnicodeIME == "io.appium.settings/.UnicodeIME"

\* is_ascii of send_keys: whether s.encode("ascii") succeeds
is_ascii(s) == \A i \in 1..Len(s) : s[i] < 128

\* text.replace(" ", "\\ "): a backslash before every space
RECURSIVE escape_spaces(_)
escape_spaces(s) ==
    IF s = << >> THEN << >>
    ELSE (IF Head(s) = 32 THEN <<92, 32>> ELSE <<Head(s)>>) \o escape_spaces(Tail(s))

\* AndroidRobot.send_keys(text) is called: the adb shell commands it runs and
\* the input method active afterwards; setOk is whether `ime set` succeeds
android_send_keys(text, setOk) ==
    /\ imeSt.ops < MaxImeOps
    /\ LET st == [imeSt EXCEPT !.before = imeSt.active, !.ops = @ + 1,
                               !.text = text]
       IN imeSt' =
              IF is_ascii(text)
              THEN [st EXCEPT !.cmds = << <<"input", "text", escape_spaces(text)>> >>]
              ELSE [st EXCEPT !.active = IF setOk THEN UnicodeIME ELSE @,
                              !.cmds = << <<"ime", "set", UnicodeIME>>,
                                          <<"am", "broadcast", "ADB_INPUT_TEXT",
                                            text>> >>]
    /\ UNCHANGED <<coreVars, elemIn, elemOut, scaleSt, ua2srv, shotSt, simctl, dispatch, pageSrc>>

(***************************************************************************)
(* UiAutomator2Server.start_server, stop_server and wait_for_server         *)
(* (src/src/uiautomator2_server.py)                                         *)
(***************************************************************************)
WaitIdle == [pc |-> "idle", timeout |-> 0, polls |-> 0, sleeps |-> 0,
             succeeded |-> 0, result |-> "none"]

\* what start_server and stop_server read and write: the tracked process,
\* the port-forward on the host, and the commands run so far
Ua2ServerInit == [server_process |-> FALSE, forwardUp |-> FALSE,
                  forwards |-> 0, launches |-> 0]

\* a start_server that does not look at _server_process
start_server_unguarded(srv, fwdOk) ==
    IF ~fwdOk
    THEN [raised |-> TRUE, srv |-> [srv EXCEPT !.forwards = @ + 1]]
    ELSE [raised |-> FALSE,
          srv |-> [srv EXCEPT !.forwards = @ + 1, !.forwardUp = TRUE,
                              !.launches = @ + 1, !.server_process = TRUE]]

\* UiAutomator2Server.start_server; fwdOk is whether `adb forward` succeeds
start_server(srv, fwdOk) ==
    IF srv.server_process
    THEN [raised |-> FALSE, srv |-> srv]
    ELSE IF ~fwdOk
         THEN [raised |-> TRUE, srv |-> [srv EXCEPT !.forwards = @ + 1]]
         ELSE [raised |-> FALSE,
               srv |-> [srv EXCEPT !.forwards = @ + 1, !.forwardUp = TRUE,
                                   !.launches = @ + 1, !.server_process = TRUE]]

\* start_server() is called
ua2_start_server(fwdOk) ==
    /\ ua2srv.ops < MaxServerOps
    /\ LET r == start_server(ua2srv.srv, fwdOk) IN
       ua2srv' = [ua2srv EXCEPT !.srv = r.srv, !.ops = @ + 1, !.op = "start",
                                !.pre = ua2srv.srv, !.fwdOk = fwdOk,
                                !.raised = r.raised]
    /\ UNCHANGED <<coreVars, elemIn, elemOut, scaleSt, imeSt, shotSt, simctl, dispatch, pageSrc>>

\* UiAutomator2Server.stop_server() is called: terminate the tracked process,
\* remove the port-forward, force-stop the package (failures swallowed)
ua2_stop_server ==
    /\ ua2srv.ops < MaxServerOps
    /\ ua2srv' = [ua2srv EXCEPT !.srv.server_process = FALSE,
                                !.srv.forwardUp = FALSE, !.ops = @ + 1,
                                !.op = "stop", !.pre = ua2srv.srv,
                                !.fwdOk = TRUE, !.raised = FALSE]
    /\ UNCHANGED <<coreVars, elemIn, elemOut, scaleSt, imeSt, shotSt, simctl, dispatch, pageSrc>>

\* wait_for_server at the top of its loop: out of iterations, or polling
wait_for_server_loop(w) ==
    IF w.polls < w.timeout
    THEN [w EXCEPT !.pc = "polling"]
    ELSE [w EXCEPT !.pc = "done", !.result = "false"]

\* a loop body that sleeps whatever is_running() answered
wait_for_server_ignores_answer(w, running) ==
    wait_for_server_loop([w EXCEPT !.polls = @ + 1, !.sleeps = @ + 1,
                                   !.succeeded = IF running THEN 1 ELSE 0])

\* the loop body once is_running() has answered: return True, or sleep one
\* second and go round
wait_for_server_body(w, running) ==
    IF running
    THEN [w EXCEPT !.pc = "done", !.polls = @ + 1, !.succeeded = @ + 1,
                   !.result = "true"]
    ELSE wait_for_server_loop([w EXCEPT !.polls = @ + 1, !.sleeps = @ + 1])

\* wait_for_server(timeout) is called
ua2_wait_for_server(timeout) ==
    /\ ua2srv.ops < MaxServerOps
    /\ ua2srv.wait.pc # "polling"
    /\ ua2srv' = [ua2srv EXCEPT !.ops = @ + 1, !.op = "wait",
                                !.wait = wait_for_server_loop(
                                    [WaitIdle EXCEPT !.timeout = timeout])]
    /\ UNCHANGED <<coreVars, elemIn, elemOut, scaleSt, imeSt, shotSt, simctl, dispatch, pageSrc>>

\* the GET /status of the pending is_running() is answered
ua2_wait_status_response(ans) ==
    /\ ua2srv.wait.pc = "polling"
    /\ ua2srv' = [ua2srv EXCEPT !.wait = wait_for_server_body(@, is_running(ans))]
    /\ UNCHANGED <<coreVars, elemIn, elemOut, scaleSt, imeSt, shotSt, simctl, dispatch, pageSrc>>

(***************************************************************************)
(* Simctl.parse_ios_app_data (src/src/iphone_simulator.py)                  *)
(*                                                                          *)
(* The text is read line by line; one action is one iteration of the loop.  *)
(***************************************************************************)
\* lines of `simctl listapps` output: two app headers, two properties (one
\* with braces in its value), the opening of a nested block, a closing line
\* (bare and indented), a line that opens a list, a property as the nested
\* blocks hold them, and the empty line
SimctlLines == {"\"com.a\" = {", "\"com.b\" = {", "CFBundleDisplayName = A;",
                "CFBundleName = \"Sample{1}App\";", "GroupContainers = {",
                "};", "    };", "SBAppTags = (", "\"group.x\" = \"file:///x/\";", ""}

\* group(1).strip() of re.match(r'^"?([^"=]+)"?\s*=\s*\{', line), None
\* without a match
app_match(line) ==
    CASE line = "\"com.a\" = {" -> "com.a"
      [] line = "\"com.b\" = {" -> "com.b"
      [] line = "GroupContainers = {" -> "GroupContainers"
      [] OTHER -> None

\* name and value of re.match(r'^([^=]+)\s*=\s*(.+?);\s*$', line), both
\* stripped and the value without its surrounding quotes; << >> without a
\* match
property_match(line) ==
    CASE line = "CFBundleDisplayName = A;" -> <<"CFBundleDisplayName", "A">>
      [] line = "CFBundleName = \"Sample{1}App\";" -> <<"CFBundleName", "Sample{1}App">>
      [] line = "\"group.x\" = \"file:///x/\";" -> <<"\"group.x\"", "file:///x/">>
      [] OTHER -> << >>

\* the state before the loop; current_app maps the keys a line can set to
\* their value, None for a key the dict does not hold.  line is the line
\* read last; depth is the brace depth of the text inside the current app
\* block, wf the identifier of a block that so far is a header followed by
\* property lines only, wfNamed whether a display name is among them, and
\* before what state, current_app, result, depth and wf were ahead of line
SimctlInit ==
    LET empty == [k \in {"CFBundleIdentifier", "CFBundleDisplayName", "CFBundleName",
                         "\"group.x\""} |-> None]
        p == [state |-> "LOOKING_FOR_APP", current_app |-> empty, result |-> << >>,
              depth |-> 0, wf |-> None, wfNamed |-> FALSE]
    IN [state |-> p.state, current_app |-> p.current_app, result |-> p.result,
        depth |-> 0, wf |-> None, wfNamed |-> FALSE,
        n |-> 0, line |-> "", before |-> p]

\* one iteration of the loop of parse_ios_app_data
parse_line(st, raw) ==
    LET line == IF raw = "    };" THEN "};" ELSE raw    \* line.strip()
        endswith_brace == line \in {"\"com.a\" = {", "\"com.b\" = {",
                                    "GroupContainers = {"}
    IN
    IF line = "" THEN st
    ELSE IF st.state = "LOOKING_FOR_APP"
    THEN IF app_match(line) # None
         THEN [st EXCEPT !.state = "IN_APP",
                         !.current_app = [k \in DOMAIN st.current_app |->
                                            IF k = "CFBundleIdentifier"
                                            THEN app_match(line) ELSE None]]
         ELSE st
    ELSE IF st.state = "IN_APP"
    THEN IF line = "};"
         THEN [st EXCEPT
                 !.result =
                     IF /\ st.current_app["CFBundleIdentifier"] # None
                        /\ st.current_app["CFBundleDisplayName"] # None
                     THEN Append(@, [cf_bundle_identifier |->
                                         st.current_app["CFBundleIdentifier"],
                                     cf_bundle_display_name |->
                                         st.current_app["CFBundleDisplayName"],
                                     cf_bundle_name |->
                                         PyOr(st.current_app["CFBundleName"], "")])
                     ELSE @,
                 !.current_app = [k \in DOMAIN st.current_app |-> None],
                 !.state = "LOOKING_FOR_APP"]
         ELSE IF property_match(line) # << >>
         THEN [st EXCEPT !.current_app[property_match(line)[1]] =
                             property_match(line)[2]]
         ELSE IF endswith_brace
         THEN [st EXCEPT !.state = "IN_PROPERTY"]
         ELSE st
    ELSE IF line = "};" THEN [st EXCEPT !.state = "IN_APP"] ELSE st

\* the loop of parse_ios_app_data reads the next line of the text
simctl_parse_line(raw) ==
    /\ simctl.n < MaxLines
    /\ LET line == IF raw = "    };" THEN "};" ELSE raw
           opens == line \in {"\"com.a\" = {", "\"com.b\" = {", "GroupContainers = {"}
           header == line \in {"\"com.a\" = {", "\"com.b\" = {"}
           now == [state |-> simctl.state, current_app |-> simctl.current_app,
                   result |-> simctl.result, depth |-> simctl.depth,
                   wf |-> simctl.wf, wfNamed |-> simctl.wfNamed]
           st == parse_line(simctl, raw)
       IN simctl' =
            [st EXCEPT
               !.n = @ + 1, !.line = line, !.before = now,
               !.depth = IF opens THEN @ + 1
                         ELSE IF line = "};" /\ @ > 0 THEN @ - 1 ELSE @,
               !.wf = IF header /\ simctl.depth <= 1 THEN app_match(line)
                      ELSE IF line = "" \/ property_match(line) # << >> THEN @
                      ELSE None,
               !.wfNamed = IF header THEN FALSE
                           ELSE IF line = "CFBundleDisplayName = A;" THEN TRUE
                           ELSE @]
    /\ UNCHANGED <<coreVars, elemIn, elemOut, scaleSt, imeSt, ua2srv, shotSt, dispatch, pageSrc>>

(***************************************************************************)
(* The tool handler as a dispatcher (server.py): create_mcp_server keeps    *)
(* one selected backend, handle_call_tool maps a tool name to an operation  *)
(* of that backend and turns every exception into a text answer.  A call    *)
(* is one step; of the operations a branch performs the first one is        *)
(* followed, and `outcome` says how the backend's work ended.               *)
(***************************************************************************)
\* the tool names handle_call_tool tells apart; "unknown_tool" takes the else
ToolNames ==
    {"mobile_list_available_devices", "mobile_use_device", "mobile_list_apps",
     "mobile_launch_app", "mobile_terminate_app", "mobile_install_app",
     "mobile_uninstall_app", "mobile_get_screen_size",
     "mobile_click_on_screen_at_coordinates", "mobile_double_tap_on_screen",
     "mobile_long_press_on_screen_at_coordinates", "mobile_list_elements_on_screen",
     "mobile_press_button", "mobile_open_url", "mobile_swipe_on_screen",
     "mobile_type_keys", "mobile_hide_keyboard", "mobile_clear_text_field",
     "mobile_take_screenshot", "mobile_save_screenshot", "mobile_get_ui_state",
     "mobile_set_orientation", "mobile_get_orientation", "unknown_tool"}

\* the backend operations a tool's branch may call first
ToolOps(name) ==
    CASE name = "mobile_list_apps" -> {"list_apps"}
      [] name = "mobile_launch_app" -> {"launch_app"}
      [] name = "mobile_terminate_app" -> {"terminate_app"}
      [] name = "mobile_install_app" -> {"install_app"}
      [] name = "mobile_uninstall_app" -> {"uninstall_app"}
      [] name = "mobile_get_screen_size" -> {"get_screen_size"}
      [] name = "mobile_click_on_screen_at_coordinates" -> {"tap"}
      [] name = "mobile_double_tap_on_screen" -> {"double_tap"}
      [] name = "mobile_long_press_on_screen_at_coordinates" -> {"long_press"}
      [] name = "mobile_list_elements_on_screen" -> {"get_elements_on_screen"}
      [] name = "mobile_press_button" -> {"press_button"}
      [] name = "mobile_open_url" -> {"open_url"}
      \* with x and y given, and without
      [] name = "mobile_swipe_on_screen" -> {"swipe_from_coordinate", "swipe"}
      [] name = "mobile_type_keys" -> {"send_keys"}
      [] name = "mobile_hide_keyboard" -> {"hide_keyboard"}
      [] name = "mobile_clear_text_field" -> {"clear_text_field"}
      [] name = "mobile_take_screenshot" -> {"get_screen_size"}
      [] name = "mobile_save_screenshot" -> {"get_screenshot"}
      [] name = "mobile_get_ui_state" -> {"get_screen_size"}
      [] name = "mobile_set_orientation" -> {"set_orientation"}
      [] name = "mobile_get_orientation" -> {"get_orientation"}
      [] OTHER -> {"none"}

\* the operations each backend class defines
BackendMethods(kind) ==
    CASE kind = "simulator" ->
           {"get_screenshot", "open_url", "launch_app", "terminate_app", "list_apps",
            "get_screen_size", "send_keys", "swipe", "swipe_between_points",
            "swipe_from_coordinate", "tap", "press_button", "get_elements_on_screen",
            "set_orientation", "get_orientation", "hide_keyboard", "clear_text_field"}
      [] kind = "ios" ->
           {"get_screen_size", "swipe", "swipe_between_points", "swipe_from_coordinate",
            "list_apps", "launch_app", "terminate_app", "open_url", "send_keys",
            "press_button", "tap", "double_tap", "long_press", "install_app",
            "uninstall_app", "get_elements_on_screen", "get_screenshot",
            "set_orientation", "get_orientation", "hide_keyboard"}
      [] kind = "android" ->
           {"get_screen_size", "list_apps", "launch_app", "swipe",
            "swipe_between_points", "swipe_from_coordinate", "get_screenshot",
            "get_elements_on_screen", "terminate_app", "open_url", "send_keys",
            "press_button", "tap", "double_tap", "long_press", "install_app",
            "uninstall_app", "set_orientation", "get_orientation", "hide_keyboard"}
      [] OTHER -> {}

\* the operations of a backend that obtain the client with _wda() and call
\* the client's operation of the same name
WdaDelegated(kind) ==
    CASE kind = "simulator" ->
           {"open_url", "get_screen_size", "send_keys", "swipe", "swipe_between_points",
            "swipe_from_coordinate", "tap", "press_button", "get_elements_on_screen",
            "set_orientation", "get_orientation", "hide_keyboard", "clear_text_field"}
      [] kind = "ios" ->
           {"get_screen_size", "swipe", "swipe_between_points", "swipe_from_coordinate",
            "open_url", "send_keys", "press_button", "tap", "double_tap", "long_press",
            "get_elements_on_screen", "set_orientation", "get_orientation",
            "hide_keyboard"}
      [] OTHER -> {}

\* the operations the WebDriverAgent client defines
WdaMethods ==
    {"get_screen_size", "send_keys", "press_button", "tap", "double_tap", "long_press",
     "get_elements_on_screen", "open_url", "swipe", "swipe_between_points",
     "swipe_from_coordinate", "set_orientation", "get_orientation"}

\* create_mcp_server: no backend selected (0 stands for None), none constructed
DispatchInit ==
    [instances |-> << >>, robot |-> 0, calls |-> 0, reported |-> FALSE,
     last |-> [name |-> "none", device |-> "none", deviceType |-> "none",
               robotBefore |-> 0, op |-> "none", precond |-> FALSE,
               invoked |-> "none", missing |-> FALSE, logOk |-> TRUE,
               exc |-> "none", excMsg |-> "none", content |-> "none",
               msg |-> "none", hint |-> FALSE]]

\* require_robot: the exception it raises ("none" when a backend is selected)
require_robot(rb) == IF rb = 0 THEN "ActionableError" ELSE "none"

\* robot.<op>(...) on a backend of the given kind: the operation reached
\* last, whether the attribute lookup failed, and the exception raised
robot_call(kind, op, precond, outcome) ==
    IF op \notin BackendMethods(kind)
    THEN [invoked |-> "none", missing |-> TRUE, exc |-> "Exception",
          msg |-> "has no attribute"]
    ELSE IF op \notin WdaDelegated(kind)
    THEN [invoked |-> op, missing |-> FALSE, exc |-> outcome,
          msg |-> IF outcome = "none" THEN "none" ELSE "backend"]
    ELSE IF ~precond
    \* _wda() raises before the client is used
    THEN [invoked |-> op, missing |-> FALSE, exc |-> "ActionableError",
          msg |-> "backend"]
    ELSE IF op \notin WdaMethods
    THEN [invoked |-> op, missing |-> TRUE, exc |-> "Exception",
          msg |-> "has no attribute"]
    ELSE [invoked |-> op, missing |-> FALSE, exc |-> outcome,
          msg |-> IF outcome = "none" THEN "none" ELSE "backend"]

\* the except clauses and the return statements: what the caller receives
\* for the exception the try block ended with; error() writes the log before
\* the answer to any other exception is built
answer(name, exc, msg, logOk) ==
    CASE exc = "ActionableError" -> [content |-> "text", msg |-> msg, hint |-> TRUE]
      [] exc = "Exception" ->
           IF logOk THEN [content |-> "text", msg |-> msg, hint |-> FALSE]
           ELSE [content |-> "raised", msg |-> "log", hint |-> FALSE]
      [] OTHER ->
           [content |-> CASE name = "mobile_take_screenshot" -> "image"
                          [] name = "mobile_get_ui_state" -> "text+image"
                          [] OTHER -> "text",
            msg |-> msg, hint |-> FALSE]

\* handle_call_tool(name, arguments): device and deviceType are the arguments
\* of mobile_use_device, op the operation the branch calls, precond whether
\* the backend's precondition chain passes, outcome the exception the
\* backend's work ends with, logOk whether write_log can write
handle_call_tool(name, device, deviceType, op, precond, outcome, logOk) ==
    /\ dispatch.calls < MaxCalls
    /\ op \in ToolOps(name)
    /\ LET rb == dispatch.robot
           kind == IF rb = 0 THEN "none" ELSE dispatch.instances[rb].kind
           known == deviceType \in {"simulator", "ios", "android"}
           idle == [invoked |-> "none", missing |-> FALSE, exc |-> "none",
                    msg |-> "result"]
           body ==
               \* trace(...) is the first statement of the try block
               IF ~logOk THEN [idle EXCEPT !.exc = "Exception", !.msg = "log"]
               ELSE IF name = "mobile_list_available_devices"
               THEN [idle EXCEPT !.exc = outcome,
                                 !.msg = IF outcome = "none" THEN "result" ELSE "backend"]
               ELSE IF name = "mobile_use_device"
               THEN [idle EXCEPT !.msg = "selected"]
               ELSE IF name = "unknown_tool"
               THEN [idle EXCEPT !.exc = "Exception", !.msg = "unknown tool"]
               ELSE IF require_robot(rb) # "none"
               THEN [idle EXCEPT !.exc = require_robot(rb), !.msg = "no device"]
               ELSE LET r == robot_call(kind, op, precond, outcome)
                    IN [r EXCEPT !.msg = IF r.exc = "none" THEN "result" ELSE @]
           selects == logOk /\ name = "mobile_use_device" /\ known
           instances == IF selects
                        THEN Append(dispatch.instances,
                                    [kind |-> deviceType, device_id |-> device])
                        ELSE dispatch.instances
           ans == answer(name, body.exc, body.msg, logOk)
       IN dispatch' =
            [instances |-> instances,
             robot |-> IF selects THEN Len(instances) ELSE rb,
             calls |-> dispatch.calls + 1,
             \* an earlier call answered that a device is selected
             reported |-> dispatch.reported \/
                          (name = "mobile_use_device" /\ ans.msg = "selected"),
             last |-> [name |-> name,
                       device |-> IF name = "mobile_use_device" THEN device ELSE "none",
                       deviceType |-> IF name = "mobile_use_device" THEN deviceType
                                      ELSE "none",
                       robotBefore |-> rb, op |-> op, precond |-> precond,
                       invoked |-> body.invoked, missing |-> body.missing,
                       logOk |-> logOk, exc |-> body.exc, excMsg |-> body.msg,
                       content |-> ans.content, msg |-> ans.msg, hint |-> ans.hint]]
    /\ UNCHANGED <<coreVars, elemIn, elemOut, scaleSt, imeSt, ua2srv, shotSt, simctl, pageSrc>>

(***************************************************************************)
(* get_page_source of the Appium application (app.py).  The session is      *)
(* created with the capability ignoreUnimportantViews taken from the        *)
(* configuration (on unless configured off); the tool switches the setting  *)
(* through driver.update_settings.  A call is one step; each driver         *)
(* request either succeeds, raises without effect or raises after the       *)
(* server applied it.                                                       *)
(***************************************************************************)
\* the answers of a driver request
DriverOutcomes == {"ok", "raise", "raise_applied"}

\* get_page_source(detailed): useJson and ignoreViews are the configuration
\* values read with default False, upOn, fetch and upOff the outcomes of the
\* three requests of the try block, last that of the closing
\* `return driver.page_source`
get_page_source(detailed, upOn, fetch, upOff, last) ==
    /\ pageSrc.calls < MaxPageCalls
    /\ LET platform == pageSrc.platform
           before == pageSrc.setting
           set(o, now, to) == IF o \in {"ok", "raise_applied"} THEN to ELSE now
           \* the closing fetch, made with the setting as it stands
           closing(setting, fetches, onFetches) ==
               [setting |-> setting,
                result |-> IF last = "ok" THEN "source" ELSE "raised",
                fetches |-> fetches + 1,
                onFetches |-> IF setting THEN onFetches + 1 ELSE onFetches]
           r == IF detailed THEN closing(before, 0, 0)
                ELSE IF platform = "ios" /\ pageSrc.config = "on"
                \* execute_script("mobile: source")
                THEN IF fetch = "ok"
                     THEN [setting |-> before, result |-> "json", fetches |-> 1,
                           onFetches |-> 0]
                     ELSE closing(before, 1, 0)
                ELSE IF platform = "android" /\ pageSrc.config = "on"
                THEN IF upOn # "ok"
                     THEN closing(set(upOn, before, TRUE), 0, 0)
                     ELSE IF fetch # "ok"
                     THEN closing(TRUE, 1, 1)
                     ELSE IF upOff # "ok"
                     THEN closing(set(upOff, TRUE, FALSE), 1, 1)
                     ELSE [setting |-> FALSE, result |-> "source", fetches |-> 1,
                           onFetches |-> 1]
                ELSE closing(before, 0, 0)
       IN pageSrc' =
            [pageSrc EXCEPT
               !.setting = r.setting, !.calls = @ + 1,
               !.last = [detailed |-> detailed, upOn |-> upOn, fetch |-> fetch,
                         upOff |-> upOff, last |-> last, before |-> before,
                         toggles |-> ~detailed /\ platform = "android"
                                       /\ pageSrc.config = "on",
                         result |-> r.result, fetches |-> r.fetches,
                         onFetches |-> r.onFetches]]
    /\ UNCHANGED <<coreVars, elemIn, elemOut, scaleSt, imeSt, ua2srv, shotSt, simctl,
                   dispatch>>

(***************************************************************************)
(* Specifications                                                           *)
(***************************************************************************)
InitWDA ==
    /\ wda = [c \in WdaSlots |-> WdaIdle]
    /\ wdaStarted = 0

InitAndroid ==
    /\ robot = 0
    /\ robots = << >>
    /\ tasks = [s \in TaskSlots |-> TaskIdle]
    /\ handler = "idle"
    /\ ua2Owner = [s \in Ua2Sids |-> 0]
    /\ toolCalls = 0
    /\ useAppiumEnv \in BOOLEAN

InitDump ==
    /\ dumpPc = "running"
    /\ dumpAttempts = 0
    /\ dumpMarkers = 0
    /\ dumpLast = << >>
    /\ dumpRes = << >>

InitIosRobot ==
    /\ ios = IosIdle
    /\ iosInfoCalls = 0
    /\ iosOps = 0

\* The initial states of the specification of one part of the server: every
\* client and backend is as constructed, the inputs of that part are drawn
\* from their sets and the variables of the other parts are pinned.
InitOf(part) ==
    /\ InitWDA /\ InitAndroid /\ InitDump /\ InitIosRobot
    \* APPIUM_USE_APPIUM matters to the Android backend only
    /\ part = "android" \/ ~useAppiumEnv
    \* the device an IosRobot talks to
    /\ iosMajor \in (IF part = "ios" THEN {16, 17, 18} ELSE {17})
    /\ iosTunnelUp \in (IF part = "ios" THEN BOOLEAN ELSE {TRUE})
    /\ iosForwardUp \in (IF part = "ios" THEN BOOLEAN ELSE {TRUE})
    /\ iosScale \in (IF part = "ios" THEN {1, 2} ELSE {1})
    \* the swipe(direction) call looked at
    /\ gestureIn \in (IF part = "gesture" THEN GestureInputs
                      ELSE {[backend |-> "none", dir |-> "up", width |-> 0,
                             height |-> 0, density |-> BASE_DENSITY]})
    /\ gestureOut = GestureNone
    \* the UI tree looked at
    /\ elemIn \in (IF part = "elements" THEN ElemInputs
                   ELSE {[backend |-> "none",
                          tree |-> [nodes |-> << >>, nested |-> FALSE],
                          density |-> BASE_DENSITY]})
    /\ elemOut = [shell |-> None, ua2 |-> None, wda |-> None]
    \* AndroidRobot.__init__: no scale cached (0 stands for None)
    /\ scaleSt = [cached |-> 0, queries |-> 0, readOk |-> FALSE, ops |-> 0,
                  last |-> ScaleNoOp]
    \* the input method enabled on the device before the first send_keys
    /\ imeSt \in {[active |-> a, before |-> a, ops |-> 0, text |-> << >>,
                    cmds |-> << >>] :
                    a \in IF part = "ime"
                          THEN {"com.android.inputmethod.latin/.LatinIME", UnicodeIME}
                          ELSE {UnicodeIME}}
    \* UiAutomator2Server.__init__: no process tracked, no call made
    /\ ua2srv = [srv |-> Ua2ServerInit, ops |-> 0, op |-> "none",
                 pre |-> Ua2ServerInit, fwdOk |-> TRUE, raised |-> FALSE,
                 wait |-> WaitIdle]
    \* the capture a screenshot tool has just taken
    /\ shotSt \in (IF part = "screenshot"
                   THEN {[ShotNone EXCEPT !.pc = "captured", !.tool = t,
                                          !.capture = c, !.sips = sp, !.magick = mg,
                                          !.scaling = is_scaling_available(sp, mg),
                                          !.jpgPath = j] :
                            t \in {"mobile_take_screenshot", "mobile_save_screenshot",
                                   "mobile_get_ui_state"},
                            c \in Captures, sp \in ToolStates, mg \in ToolStates,
                            j \in BOOLEAN}
                   ELSE {ShotNone})
    /\ simctl = SimctlInit
    /\ dispatch = DispatchInit
    \* connect(): the platform of the session, the performance option of the
    \* configuration that platform reads ("absent" when the key is missing)
    \* and the capability the session starts with
    /\ pageSrc \in {[platform |-> p, config |-> c,
                     setting |-> (p = "android" /\ c # "off"), calls |-> 0,
                     last |-> [detailed |-> FALSE, upOn |-> "ok", fetch |-> "ok",
                               upOff |-> "ok", last |-> "ok", before |-> FALSE,
                               toggles |-> FALSE, result |-> "none", fetches |-> 0,
                               onFetches |-> 0]] :
                       p \in IF part = "pagesource" THEN {"android", "ios"}
                             ELSE {"android"},
                       c \in IF part = "pagesource" THEN {"on", "off", "absent"}
                             ELSE {"off"}}

Next ==
    \/ mobile_use_device
    \/ \E tool \in {"mobile_take_screenshot", "mobile_save_screenshot",
                    "mobile_list_elements_on_screen"}, sizeOk, adbOk \in BOOLEAN :
          mobile_single_call(tool, sizeOk, adbOk)
    \/ \E sizeOk, adbShot, adbElems \in BOOLEAN :
          mobile_get_ui_state(sizeOk, adbShot, adbElems)
    \/ handle_call_tool_resume
    \/ \E s \in TaskSlots, o \in StatusOutcomes, installed, fwdOk, adbOk \in BOOLEAN :
          ua2_status_response(s, o, installed, fwdOk, adbOk)
    \/ \E s \in TaskSlots, o \in StatusOutcomes, adbOk \in BOOLEAN :
          ua2_poll_response(s, o, adbOk)
    \/ \E s \in TaskSlots, resp \in Responses, adbOk \in BOOLEAN :
          ua2_create_session_response(s, resp, adbOk)
    \/ \E s \in TaskSlots, resp \in Responses, adbOk \in BOOLEAN :
          ua2_request_response(s, resp, adbOk)

\* the Android backend behind the tool handler
Spec == InitOf("android") /\ [][Next]_vars

\* the WebDriverAgent client under overlapping calls
SpecWDA ==
    InitOf("wda") /\
    [][ \/ \E c \in WdaSlots, op \in WdaOps, arg \in WdaArgs : WDA_call(c, op, arg)
        \/ \E c \in WdaSlots, resp \in Responses : WDA_create_session_response(c, resp)
        \/ \E c \in WdaSlots, resp \in Responses : WDA_fn_response(c, resp)
        \/ \E c \in WdaSlots, resp \in Responses : WDA_delete_session_response(c, resp)
      ]_vars

\* one call of _get_ui_automator_dump against every sequence of outputs
SpecDump ==
    InitOf("dump") /\
    [][ \/ \E d \in Dumps : ui_automator_dump_attempt(d)
        \/ ui_automator_dump_adb_fails
      ]_vars

\* a sequence of operations on one IosRobot
SpecIos ==
    InitOf("ios") /\
    [][ \/ \E op \in IosOperations, arg \in WdaArgs,
              given \in UNION {IosGiven(o) : o \in IosOperations},
              infoOk, cliOk \in BOOLEAN : ios_call(op, arg, given, infoOk, cliOk)
        \/ \E ans \in StatusAnswers : ios_status_response(ans)
        \/ ios_return
        \/ \E resp \in Responses : WDA_create_session_response(1, resp)
        \/ \E resp \in Responses : WDA_fn_response(1, resp)
        \/ \E resp \in Responses : WDA_delete_session_response(1, resp)
      ]_vars

\* one swipe(direction) call for every direction, screen and density
SpecGesture ==
    InitOf("gesture") /\
    [][ \/ android_swipe
        \/ wda_swipe
      ]_vars

\* get_elements_on_screen of each transport for every tree
SpecElements ==
    InitOf("elements") /\
    [][ \/ android_get_elements_on_screen
        \/ ua2_get_elements_on_screen
        \/ wda_get_elements_on_screen
      ]_vars

\* one screenshot tool call for every capture
SpecScreenshot == InitOf("screenshot") /\ [][handle_call_tool_screenshot]_vars

\* send_keys calls on one device for every short text
SpecIme ==
    InitOf("ime") /\
    \* texts over "a", " ", U+00E9 and U+AC00
    [][\E text \in UNION {[1..n -> {97, 32, 233, 44032}] : n \in 0..MaxTextLen},
          setOk \in BOOLEAN : android_send_keys(text, setOk)]_vars

\* start_server, stop_server and wait_for_server on one client
SpecUa2Server ==
    InitOf("ua2server") /\
    [][ \/ \E fwdOk \in BOOLEAN : ua2_start_server(fwdOk)
        \/ ua2_stop_server
        \/ \E timeout \in 0..MaxWaitTimeout : ua2_wait_for_server(timeout)
        \/ \E ans \in StatusAnswers : ua2_wait_status_response(ans)
      ]_vars

\* the same where a pending GET /status is answered in the end: the request
\* has a total timeout of 5 seconds and asyncio.sleep(1) returns
SpecUa2ServerLive ==
    /\ SpecUa2Server
    /\ WF_vars(\E ans \in StatusAnswers : ua2_wait_status_response(ans))

\* a sequence of tool calls on one server; only mobile_use_device reads the
\* arguments device and deviceType
SpecTools ==
    InitOf("tools") /\
    [][\E name \in ToolNames, precond, logOk \in BOOLEAN,
          outcome \in {"none", "ActionableError", "Exception"} :
          \E op \in ToolOps(name),
             device \in (IF name = "mobile_use_device" THEN {"d1", "d2"} ELSE {"d1"}),
             deviceType \in (IF name = "mobile_use_device"
                             THEN {"simulator", "ios", "android", "tv"}
                             ELSE {"android"}) :
             handle_call_tool(name, device, deviceType, op, precond, outcome, logOk)]_vars

\* get_page_source calls on one Appium session
SpecPageSource ==
    InitOf("pagesource") /\
    [][\E detailed \in BOOLEAN, upOn, fetch, upOff, last \in DriverOutcomes :
          get_page_source(detailed, upOn, fetch, upOff, last)]_vars

\* parse_ios_app_data on every text of up to MaxLines lines
SpecSimctl ==
    InitOf("simctl") /\ [][\E raw \in SimctlLines : simctl_parse_line(raw)]_vars

\* a sequence of operations on one AndroidRobot against every density
\* answer, and the screen sizes of the two agents
SpecScale ==
    InitOf("scale") /\
    [][ \/ \E x \in 0..MaxCoord, ans \in DensityAnswers : android_tap(x, ans)
        \/ \E ans \in DensityAnswers : android_element_rect(ans)
        \/ \E p \in PixelSizes, ans \in DensityAnswers : android_get_screen_size(p, ans)
        \/ \E value \in {[width |-> 1080, height |-> 1920],
                         [width |-> 0, height |-> 0]} : ua2_get_screen_size(value)
        \/ \E value \in {[width |-> 390, height |-> 844, scale |-> s] :
                            s \in {0, 2, 3}} : wda_get_screen_size(value)
      ]_vars


(***************************************************************************)
(* C1: every within_session call whose session creation succeeded issues    *)
(* exactly one POST /session and exactly one DELETE /session/{id} for its   *)
(* id, and the DELETE is issued only once fn has finished, by returning or  *)
(* by raising.                                                              *)
(***************************************************************************)
WithinSessionCreatesAndDeletesOnce ==
    \A c \in WdaSlots :
         LET w == wda[c] IN
         /\ w.dels <= 1
         /\ w.fnres # "notrun" =>
               /\ w.posts = 1
               /\ w.dels > 0 => w.fnres \in {"returned", "raised"}
               /\ w.fnres \in {"returned", "raised"} => w.dels = 1
               /\ w.pc = "done" => w.dels = 1
         /\ w.fnres = "notrun" => w.dels = 0

\* a call whose fn raised has finished with its one DELETE issued
WitnessSessionDeletedAfterRaise ==
    \E c \in WdaSlots :
        /\ wda[c].pc = "done" /\ wda[c].fnres = "raised"
        /\ wda[c].posts = 1 /\ wda[c].dels = 1

(***************************************************************************)
(* C3: a request under /session/{id} is on the wire only from a function   *)
(* run by within_session: after the one POST /session of that call has      *)
(* returned the id and before the call has issued DELETE /session/{id}.     *)
(***************************************************************************)
SessionRequestsInsideSession ==
    \A c \in WdaSlots :
        wda[c].pc = "in_fn" =>
            /\ wda[c].fn \in WdaShapes
            /\ wda[c].session
            /\ wda[c].posts = 1
            /\ wda[c].dels = 0

\* two calls overlap: one has its swipe's second request on the wire in its
\* own session while the other call has already deleted its session
WitnessRequestInsideSession ==
    \E c, d \in WdaSlots :
        /\ wda[c].pc = "in_fn" /\ wda[c].fn = "_swipe" /\ wda[c].step = 2
        /\ d # c /\ wda[d].pc = "done" /\ wda[d].dels = 1

(***************************************************************************)
(* C2 (as claimed): every UiAutomator2 client has at most one session alive *)
(* on the agent at any moment, also while the fetches of mobile_get_ui_state *)
(* overlap.                                                                  *)
(***************************************************************************)
AtMostOneActiveSession ==
    \A i \in 1..Len(robots) :
        Cardinality({s \in Ua2Sids : ua2Owner[s] = i}) <= 1

(***************************************************************************)
(* C4 (as claimed): once a client holds a session id, every later step      *)
(* leaves that id in place (delete_session is never called by the backend    *)
(* or the handler), so every later operation uses it and no further session  *)
(* is created.                                                               *)
(***************************************************************************)
SessionCreatedOnceAndReused ==
    [][\A i \in 1..Len(robots) :
          robots[i].session_id # 0 =>
              /\ robots'[i].session_id = robots[i].session_id
              /\ \A s \in Ua2Sids : ua2Owner'[s] = i => ua2Owner[s] = i]_vars

(***************************************************************************)
(* C5 (as claimed): no session is alive on the agent once the backend that   *)
(* created it is no longer the server's current backend.                     *)
(***************************************************************************)
NoSessionOutlivesItsBackend ==
    \A s \in Ua2Sids : ua2Owner[s] # 0 => ua2Owner[s] = robot

(***************************************************************************)
(* C6: per AndroidRobot instance the probe runs at most once, by at most     *)
(* one call; the instance is marked checked exactly when it has probed; and  *)
(* with use_appium false no client is constructed and nothing is probed.     *)
(***************************************************************************)
FastPathResolvedOnce ==
    \A i \in 1..Len(robots) :
        LET rb == robots[i] IN
        /\ rb.probes <= 1
        /\ rb.checked <=> rb.probes = 1
        /\ rb.ua2 <=> rb.checked
        /\ ~rb.use_appium => ~rb.ua2 /\ rb.probes = 0 /\ ~rb.available
        /\ Cardinality({s \in TaskSlots : tasks[s].rb = i /\
                           tasks[s].pc \in {"await_status", "await_poll"}}) <= 1

\* a call that did not probe was served by the cached client
WitnessCachedClientUsed ==
    \E s \in TaskSlots :
        /\ tasks[s].pc = "done" /\ ~tasks[s].probed /\ tasks[s].res = "fast"
        /\ robots[tasks[s].rb].probes = 1

(***************************************************************************)
(* C7 (as claimed): after the first failure of the fast path on an instance  *)
(* (failed probe, or a client request that raised), no later call on that    *)
(* instance sends a request through the UiAutomator2 client.                 *)
(***************************************************************************)
FastPathDisabledAfterFirstFailure ==
    \A i \in 1..Len(robots) : ~robots[i].usedAfterFail

(***************************************************************************)
(* C8: when a request of the UiAutomator2 client (session creation or the    *)
(* fetch) raises while it serves get_screenshot / get_elements_on_screen,    *)
(* the call ends with the outcome of the adb shell path; the client's        *)
(* exception does not reach the caller.                                      *)
(***************************************************************************)
ClientRequestErrorsFallBack ==
    \A s \in TaskSlots :
        tasks[s].clientRaised =>
            /\ tasks[s].pc = "done"
            /\ tasks[s].res \in {"adb", "raised_adb"}

\* a call whose client request raised has returned what the adb path gave
WitnessFallbackAfterClientError ==
    \E s \in TaskSlots :
        tasks[s].pc = "done" /\ tasks[s].clientRaised /\ tasks[s].res = "adb"

(***************************************************************************)
(* C9 (as claimed): when the client's is_running() raises during the probe,  *)
(* get_elements_on_screen raises nothing: it ends with the adb path.         *)
(***************************************************************************)
ProbeExceptionFallsBack ==
    \A s \in TaskSlots :
        tasks[s].op = "elems" /\ tasks[s].probeRaised =>
            tasks[s].res \in {"adb", "raised_adb"}

(***************************************************************************)
(* C10: _get_ui_automator_dump runs at most 10 dump commands; it returns     *)
(* the trimmed first output without marker, all earlier outputs having       *)
(* carried the marker; it raises ActionableError exactly when 10 outputs     *)
(* carried the marker.                                                       *)
(***************************************************************************)
UiDumpBoundedRetry ==
    /\ dumpAttempts <= DumpAttempts
    /\ dumpPc = "raised" <=> dumpMarkers = DumpAttempts
    /\ dumpPc = "raised" => dumpAttempts = DumpAttempts
    /\ dumpPc = "returned" =>
          /\ ~HasMarker(dumpLast)
          /\ dumpMarkers = dumpAttempts - 1
          /\ dumpRes = TrimDump(dumpLast)
          /\ ~HasMarker(dumpRes)
    /\ dumpPc = "running" => dumpMarkers = dumpAttempts

\* the tenth attempt succeeded after nine transient failures
WitnessDumpAfterNineRetries ==
    /\ dumpPc = "returned" /\ dumpMarkers = 9 /\ dumpAttempts = 10
    /\ Len(dumpRes) > 0 /\ Len(dumpRes) < Len(dumpLast)

(***************************************************************************)
(* C11: an IosRobot operation that uses the agent checks the tunnel (only   *)
(* for iOS >= 17), then the forwarded port, then GET /status; the first     *)
(* check that fails ends the operation with its own error; no request of    *)
(* the WebDriverAgent client is issued unless every applicable check        *)
(* passed.                                                                   *)
(***************************************************************************)
IosPreconditionsInOrder ==
    LET needTunnel == iosMajor >= 17
        order == (IF needTunnel THEN <<"info", "tunnel">> ELSE <<"info">>)
                    \o <<"forward", "status">>
        IsPrefix(a, b) == Len(a) <= Len(b) /\ SubSeq(b, 1, Len(a)) = a
        firstFailure ==
            IF needTunnel /\ ~iosTunnelUp THEN "tunnel_missing"
            ELSE IF ~iosForwardUp THEN "forward_missing"
            ELSE IF ios.status # "ok200" THEN "agent_not_running"
            ELSE "none"
        passedAll == /\ ios.checks = order
                     /\ needTunnel => iosTunnelUp
                     /\ iosForwardUp
                     /\ ios.status = "ok200"
    IN /\ ios.op \notin WdaOps => wda[1] = WdaIdle
       /\ ios.op \in WdaOps =>
            /\ IsPrefix(ios.checks, order)
            /\ ios.pc = "done" /\ ios.err = "cli_error" =>
                  ios.checks = <<"info">>
            /\ ios.pc = "done" /\ ios.err \notin {"cli_error", "client_error"} =>
                  ios.err = firstFailure
            /\ ios.pc = "done" /\ ios.err \in {"none", "client_error"} => passedAll
            /\ ios.pc = "in_wda" \/ wda[1] # WdaIdle => passedAll

\* the tunnel is required and up, the forwarded port is not: the operation
\* ended with the forward error before asking the agent for its status
WitnessForwardMissingAfterTunnel ==
    /\ ios.pc = "done" /\ ios.op \in WdaOps
    /\ iosMajor >= 17 /\ iosTunnelUp /\ ~iosForwardUp
    /\ ios.err = "forward_missing"
    /\ ios.checks = <<"info", "tunnel", "forward">>

(***************************************************************************)
(* C12 (as claimed): across the operations of one IosRobot the device-info  *)
(* command `ios info` is run at most once.                                   *)
(***************************************************************************)
IosVersionQueriedOnce ==
    iosInfoCalls <= 1

(***************************************************************************)
(* C13 (as claimed): a swipe whose POST /session/{id}/actions was sent has   *)
(* sent DELETE /session/{id}/actions by the time DELETE /session/{id} is     *)
(* issued.                                                                   *)
(***************************************************************************)
SwipeAlwaysClearsActions ==
    \A c \in WdaSlots :
        wda[c].fn = "_swipe" /\ wda[c].pc = "await_delete" /\ wda[c].step >= 1 =>
            wda[c].step = 2

(***************************************************************************)
(* C14 (as claimed): an operation one of whose requests was answered with a  *)
(* non-2xx status ends by raising.                                           *)
(***************************************************************************)
Non2xxAlwaysRaises ==
    \A c \in WdaSlots :
        wda[c].pc = "done" /\ wda[c].non2xx => wda[c].out = "raised"

(***************************************************************************)
(* C15: is_running() of both clients ends with a boolean for every answer    *)
(* to GET /status: true exactly for status 200, false for every other        *)
(* status, for a connection failure and for a timeout; it raises for none.   *)
(***************************************************************************)
IsRunningNeverRaises ==
    /\ ios.status # "none" =>
          /\ ios.running \in {"true", "false"}
          /\ ios.running = "true" <=> ios.status = "ok200"
    /\ \A ans \in StatusAnswers :
          /\ WebDriverAgent_is_running(ans) \in {"true", "false"}
          /\ WebDriverAgent_is_running(ans) = "true" <=> ans = "ok200"
    /\ \A o \in StatusOutcomes \ {"raise"} :
          /\ is_running(o) \in BOOLEAN
          /\ is_running(o) <=> o = "ok200"

\* GET /status timed out: is_running() answered false and the operation
\* ended with the agent-not-running error
WitnessStatusTimeoutIsFalse ==
    /\ ios.pc = "done" /\ ios.status = "timeout" /\ ios.running = "false"
    /\ ios.err = "agent_not_running"

(***************************************************************************)
(* C16: press_button with HOME, VOLUME_UP or VOLUME_DOWN sends the           *)
(* press-button request inside one session; with ENTER it is send_keys;      *)
(* with any other name it raises without creating a session or sending a     *)
(* request.                                                                  *)
(***************************************************************************)
PressButtonMapping ==
    /\ WdaFnOf("press_button", "valid") = "_press"
    /\ WdaFnOf("press_button", "enter") = WdaFnOf("send_keys", "valid")
    /\ \A c \in WdaSlots :
         LET w == wda[c] IN
         /\ w.button = "invalid" =>
               /\ w.pc = "done" /\ w.out = "raised"
               /\ w.posts = 0 /\ w.dels = 0 /\ w.fnres = "notrun"
         /\ w.button = "valid" /\ w.pc = "in_fn" => w.fn = "_press"
         /\ w.button = "enter" /\ w.pc = "in_fn" =>
               w.fn = WdaShape(WdaFnOf("send_keys", "valid"))
         /\ w.button # "none" => w.posts <= 1 /\ w.dels <= 1 /\ w.next = "none"

\* an unsupported button was rejected while a supported one has its
\* press-button request on the wire
WitnessUnsupportedButtonRejected ==
    \E c, d \in WdaSlots :
        /\ wda[c].pc = "done" /\ wda[c].button = "invalid"
        /\ wda[d].pc = "in_fn" /\ wda[d].button = "valid"

IosCoordinatesDividedByScale ==
    /\ ios.pc = "in_wda"
    /\ ios.op \in {"tap", "swipe_between_points"}
    => \A i \in DOMAIN ios.given : ios.passed[i] * iosScale = ios.given[i]

(***************************************************************************)
(* C19: AndroidRobot.swipe(direction) runs exactly one `input swipe`         *)
(* command, from 80% to 20% of the logical dimension along the swipe axis    *)
(* (20% to 80% for down and right), the other coordinate at the centre,      *)
(* every value multiplied by the scale, duration 1000 ms; on a 1000x2000     *)
(* screen of scale 1 swipe("left") runs `input swipe 800 1000 200 1000       *)
(* 1000`; an unsupported direction raises and runs no input command.         *)
(***************************************************************************)
AndroidSwipeCommand ==
    gestureIn.backend = "android" /\ gestureOut # GestureNone =>
        LET n == gestureIn.density
            w == (gestureIn.width * 160) \div n
            h == (gestureIn.height * 160) \div n
            d == gestureIn.dir
            horizontal == d \in {"left", "right"}
            axis == IF horizontal THEN w ELSE h
            centre == IF horizontal THEN h \div 2 ELSE w \div 2
            forward == d \in {"up", "left"}
            from == IF forward THEN (axis * 80) \div 100 ELSE (axis * 20) \div 100
            to == IF forward THEN (axis * 20) \div 100 ELSE (axis * 80) \div 100
            px(v) == (v * n) \div 160
        IN /\ d \notin SwipeDirections =>
                gestureOut.raised /\ gestureOut.cmds = << >>
           /\ d \in SwipeDirections =>
                /\ ~gestureOut.raised
                /\ Len(gestureOut.cmds) = 1
                /\ gestureOut.cmds[1] =
                     IF horizontal
                     THEN <<"input", "swipe", px(from), px(centre), px(to), px(centre), 1000>>
                     ELSE <<"input", "swipe", px(centre), px(from), px(centre), px(to), 1000>>
           /\ (d = "left" /\ n = 160 /\ gestureIn.width = 1000 /\ gestureIn.height = 2000) =>
                gestureOut.cmds = << <<"input", "swipe", 800, 1000, 200, 1000, 1000>> >>

\* swipe("left") on the 1000x2000 screen of scale 1 ran its one command
WitnessAndroidSwipeLeft ==
    /\ gestureIn = [backend |-> "android", dir |-> "left", width |-> 1000,
                    height |-> 2000, density |-> 160]
    /\ gestureOut.cmds = << <<"input", "swipe", 800, 1000, 200, 1000, 1000>> >>

(***************************************************************************)
(* C20: WebDriverAgent.swipe(direction) drags over 60% of the dimension,     *)
(* centred on the screen: for left from right of the centre to left of it    *)
(* with both y at the vertical centre, mirrored for right, along y for up    *)
(* and down; on a 1000x1000 screen swipe("right") drags from (200, 500) to   *)
(* (800, 500).                                                               *)
(***************************************************************************)
WdaSwipePoints ==
    /\ gestureIn.backend = "wda"
    /\ gestureIn.dir \in SwipeDirections
    /\ gestureOut # GestureNone
    => /\ ~gestureOut.raised
       /\ Len(gestureOut.cmds) = 1
       /\ LET c == gestureOut.cmds[1]
              d == gestureIn.dir
              cx == gestureIn.width \div 2
              cy == gestureIn.height \div 2
              horizontal == d \in {"left", "right"}
              dim == IF horizontal THEN gestureIn.width ELSE gestureIn.height
              centre == IF horizontal THEN cx ELSE cy
              a0 == IF horizontal THEN c[2] ELSE c[3]
              a1 == IF horizontal THEN c[4] ELSE c[5]
              travel == IF a0 > a1 THEN a0 - a1 ELSE a1 - a0
          IN /\ c[1] = "pointer"
             /\ horizontal => c[3] = cy /\ c[5] = cy
             /\ ~horizontal => c[2] = cx /\ c[4] = cx
             /\ d \in {"left", "up"} => a0 > centre /\ centre > a1
             /\ d \in {"right", "down"} => a0 < centre /\ centre < a1
             /\ a0 + a1 = 2 * centre
             /\ 10 * travel <= 6 * dim /\ 6 * dim < 10 * (travel + 2)
             /\ (d = "right" /\ gestureIn.width = 1000 /\ gestureIn.height = 1000) =>
                    c = <<"pointer", 200, 500, 800, 500>>

\* swipe("right") on the 1000x1000 screen dragged from (200, 500) to (800, 500)
WitnessWdaSwipeRight ==
    /\ gestureIn.backend = "wda" /\ gestureIn.dir = "right"
    /\ gestureIn.width = 1000 /\ gestureIn.height = 1000
    /\ gestureOut.cmds = << <<"pointer", 200, 500, 800, 500>> >>


(***************************************************************************)
(* C21: whatever the tree, no list returned by get_elements_on_screen, over  *)
(* the adb dump, the UiAutomator2 client or WebDriverAgent, holds an         *)
(* element whose text, label, name and identifier are all empty or absent.   *)
(***************************************************************************)
ElementsHaveContent ==
    \A k \in {"shell", "ua2", "wda"} :
        elemOut[k] # None =>
            \A i \in 1..Len(elemOut[k]) :
                LET e == elemOut[k][i] IN
                \/ Truthy(e.text) \/ Truthy(e.label)
                \/ Truthy(e.name) \/ Truthy(e.identifier)

\* a tree with a node that only has a resource-id next to a node with text:
\* both Android transports returned the one element with text
WitnessUnlabelledNodeDropped ==
    /\ elemIn.backend = "android"
    /\ \E i \in 1..Len(elemIn.tree.nodes) :
          LET n == elemIn.tree.nodes[i] IN
          ~Truthy(n.text) /\ ~Truthy(n.desc) /\ ~Truthy(n.hint) /\ n.rid = "r"
    /\ elemOut.shell # None /\ elemOut.ua2 # None
    /\ Len(elemOut.shell) = 1 /\ Len(elemOut.ua2) = 1

(***************************************************************************)
(* C22 (as claimed): for one Android tree and one density the list of the    *)
(* UiAutomator2 transport and the list of the shell-dump transport are the   *)
(* same.                                                                     *)
(***************************************************************************)
AndroidTransportsAgree ==
    elemOut.shell # None /\ elemOut.ua2 # None => elemOut.shell = elemOut.ua2

(***************************************************************************)
(* C23 (as claimed): every element of every returned list has a rectangle    *)
(* of positive width and positive height.                                    *)
(***************************************************************************)
ElementRectsHaveArea ==
    \A k \in {"shell", "ua2", "wda"} :
        elemOut[k] # None =>
            \A i \in 1..Len(elemOut[k]) :
                elemOut[k][i].rect.width > 0 /\ elemOut[k][i].rect.height > 0

(***************************************************************************)
(* C24: for a logical coordinate x >= 0 and a scale >= 1, the pixel value    *)
(* tap computes, converted back by the element-rectangle parser, is within   *)
(* 1 of x.                                                                   *)
(***************************************************************************)
PixelRoundTripWithinOne ==
    scaleSt.last.op = "rect" /\ scaleSt.last.scale160 >= BASE_DENSITY =>
        /\ scaleSt.last.back - scaleSt.last.x <= 1
        /\ scaleSt.last.x - scaleSt.last.back <= 1

\* at density 420 a coordinate came back one lower than it went in
WitnessRoundTripLosesOne ==
    /\ scaleSt.last.op = "rect" /\ scaleSt.last.scale160 = 420
    /\ scaleSt.last.x > 0
    /\ scaleSt.last.back = scaleSt.last.x - 1

(***************************************************************************)
(* C25 (as claimed): every ScreenSize a get_screen_size returned has         *)
(* scale >= 1, width > 0 and height > 0.                                     *)
(***************************************************************************)
ScreenSizePositive ==
    scaleSt.last.op \in {"android_size", "ua2_size", "wda_size"} =>
        /\ scaleSt.last.scale160 >= BASE_DENSITY
        /\ scaleSt.last.width > 0
        /\ scaleSt.last.height > 0

(***************************************************************************)
(* C26: once a `wm density` read of an AndroidRobot has succeeded, no later  *)
(* operation of the instance runs `wm density` again and the cached scale    *)
(* does not change; an operation whose read was unreadable works with        *)
(* density 160, i.e. scale 1.                                                *)
(***************************************************************************)
ScaleCachedAfterRead ==
    /\ [][scaleSt.readOk =>
             /\ scaleSt'.queries = scaleSt.queries
             /\ scaleSt'.cached = scaleSt.cached]_vars
    /\ [](scaleSt.last.read = Unreadable /\ scaleSt.last.op # "none" =>
             scaleSt.last.scale160 = BASE_DENSITY)

\* the second operation after a successful read at density 420 did not ask
\* the device and used the cached scale
WitnessScaleServedFromCache ==
    /\ scaleSt.readOk /\ scaleSt.ops >= 2 /\ scaleSt.queries = 1
    /\ scaleSt.last.read = 0 - 1
    /\ scaleSt.last.op = "android_size" /\ scaleSt.last.scale160 = 420

(***************************************************************************)
(* C30: a capture without the PNG signature ends the call with the           *)
(* validation error of get_dimensions, a PNG whose IHDR width or height is   *)
(* 0 ends it with the ActionableError that asks to retry; in both cases no   *)
(* image content is returned and the bytes are neither optimized nor saved.  *)
(***************************************************************************)
InvalidCaptureNeverReturned ==
    shotSt.pc = "done" =>
        LET c == shotSt.capture
            badSignature == Len(c) < 8 \/ \E i \in 1..8 : c[i] # png_signature[i]
            zeroDim == /\ ~badSignature /\ Len(c) >= 24
                       /\ \/ \A i \in 17..20 : c[i] = 0
                          \/ \A i \in 21..24 : c[i] = 0
        IN /\ badSignature => shotSt.raised = "ValueError"
           /\ zeroDim => shotSt.raised = "ActionableError: retry"
           /\ badSignature \/ zeroDim =>
                 /\ shotSt.content = "text" /\ shotSt.image = << >>
                 /\ ~shotSt.optimized /\ ~shotSt.saved

\* mobile_take_screenshot got a PNG of width 1080 and height 0 and answered
\* with the retry error
WitnessZeroHeightPngRejected ==
    /\ shotSt.pc = "done" /\ shotSt.tool = "mobile_take_screenshot"
    /\ Slice(shotSt.capture, 0, 8) = png_signature
    /\ Slice(shotSt.capture, 16, 24) = <<0, 0, 4, 56, 0, 0, 0, 0>>
    /\ shotSt.raised = "ActionableError: retry" /\ shotSt.content = "text"

(***************************************************************************)
(* C27 (as claimed): send_keys with non-ASCII text switches to the Unicode   *)
(* IME, broadcasts the text and then restores the input method that was      *)
(* active before, so that the active input method after the call is the one  *)
(* before it; ASCII text is sent with `input text` and leaves the input      *)
(* method alone.                                                             *)
(***************************************************************************)
SendKeysRestoresIme ==
    imeSt.ops > 0 =>
        IF is_ascii(imeSt.text)
        THEN /\ imeSt.cmds = << <<"input", "text", escape_spaces(imeSt.text)>> >>
             /\ imeSt.active = imeSt.before
        ELSE /\ imeSt.cmds = << <<"ime", "set", UnicodeIME>>,
                                <<"am", "broadcast", "ADB_INPUT_TEXT", imeSt.text>>,
                                <<"ime", "set", imeSt.before>> >>
             /\ imeSt.active = imeSt.before

(***************************************************************************)
(* C28: a start_server on a client that tracks a running server sets up no   *)
(* port-forward, launches nothing and leaves the client as it was; a         *)
(* start_server whose port-forward fails raises and leaves the server        *)
(* untracked; a start_server on an untracked client (at first or after       *)
(* stop_server) sets up the forward and launches the server.                 *)
(***************************************************************************)
StartServerIdempotent ==
    ua2srv.op = "start" =>
        /\ ua2srv.pre.server_process =>
              ua2srv.srv = ua2srv.pre /\ ~ua2srv.raised
        /\ ~ua2srv.pre.server_process /\ ~ua2srv.fwdOk =>
              /\ ua2srv.raised /\ ~ua2srv.srv.server_process
              /\ ua2srv.srv.launches = ua2srv.pre.launches
        /\ ~ua2srv.pre.server_process /\ ua2srv.fwdOk =>
              /\ ~ua2srv.raised /\ ua2srv.srv.server_process
              /\ ua2srv.srv.launches = ua2srv.pre.launches + 1
              /\ ua2srv.srv.forwards = ua2srv.pre.forwards + 1

\* start, stop, start, start: the server was launched twice and the last
\* start changed nothing
WitnessSecondStartIsNoOp ==
    /\ ua2srv.op = "start" /\ ua2srv.pre.server_process
    /\ ua2srv.srv.launches = 2 /\ ua2srv.srv.forwards = 2

(***************************************************************************)
(* C29: wait_for_server(timeout) polls is_running at most `timeout` times,   *)
(* sleeping one second after each poll that failed; it returns true at the   *)
(* first poll that succeeds and false when all `timeout` polls failed, and   *)
(* it always comes to its end.                                               *)
(***************************************************************************)
WaitForServerTerminates ==
    /\ [](LET w == ua2srv.wait IN
          /\ w.polls <= w.timeout
          /\ w.succeeded <= 1
          /\ w.pc = "polling" => w.succeeded = 0 /\ w.sleeps = w.polls
          /\ w.pc = "done" =>
                /\ w.result \in {"true", "false"}
                /\ w.result = "true" <=> w.succeeded = 1
                /\ w.result = "true" => w.sleeps = w.polls - 1
                /\ w.result = "false" => w.polls = w.timeout /\ w.sleeps = w.timeout)
    /\ (ua2srv.wait.pc = "polling" ~> ua2srv.wait.pc = "done")

\* every poll of wait_for_server failed and it returned false
WitnessWaitTimedOut ==
    /\ ua2srv.wait.pc = "done" /\ ua2srv.wait.result = "false"
    /\ ua2srv.wait.timeout >= 2 /\ ua2srv.wait.polls = ua2srv.wait.timeout

(***************************************************************************)
(* C31: when scaling is available and every resize tool fails on the image, *)
(* mobile_take_screenshot and mobile_get_ui_state still answer with the     *)
(* original, validated PNG bytes as image/png and raise nothing.            *)
(***************************************************************************)
TransformFailureReturnsOriginal ==
    /\ shotSt.pc = "done"
    /\ shotSt.tool \in {"mobile_take_screenshot", "mobile_get_ui_state"}
    /\ get_dimensions(shotSt.capture).raised = "none"
    /\ get_dimensions(shotSt.capture).width > 0
    /\ get_dimensions(shotSt.capture).height > 0
    /\ shotSt.scaling /\ shotSt.sips # "ok" /\ shotSt.magick # "ok"
    => /\ shotSt.raised = "none"
       /\ shotSt.content = "image" /\ shotSt.image = shotSt.capture
       /\ shotSt.mime = "image/png"

(***************************************************************************)
(* C32: when IosRobot.get_screenshot has ended, no temporary file of the    *)
(* call exists, whether the go-ios command succeeded, failed, or the read   *)
(* failed; when the tunnel precondition failed, no file was created.        *)
(***************************************************************************)
ScreenshotTempFileRemoved ==
    ios.pc = "done" /\ ios.op = "get_screenshot" =>
        /\ ios.tmpLeft = 0
        /\ ios.err = "tunnel_missing" => ios.tmpMade = 0
        /\ ios.err \in {"none", "read_error"} => ios.tmpMade = 1

\* the go-ios screenshot command failed after the file was created, and the
\* file is gone
WitnessScreenshotCliFailedFileGone ==
    /\ ios.pc = "done" /\ ios.op = "get_screenshot"
    /\ ios.err = "cli_error" /\ ios.out = "raised"
    /\ ios.tmpMade = 1 /\ ios.tmpLeft = 0

(***************************************************************************)
(* C33: a block that is a header, property lines with a display name among  *)
(* them and its closing line is returned when its closing line is read,     *)
(* after the apps returned before it, also when the block before it was     *)
(* left unterminated.                                                       *)
(***************************************************************************)
WellFormedBlocksReturned ==
    /\ simctl.n > 0 /\ simctl.line = "};"
    /\ simctl.before.wf # None /\ simctl.before.wfNamed
    => /\ Len(simctl.result) = Len(simctl.before.result) + 1
       /\ SubSeq(simctl.result, 1, Len(simctl.before.result)) = simctl.before.result
       /\ simctl.result[Len(simctl.result)].cf_bundle_identifier = simctl.before.wf

(***************************************************************************)
(* C34: a line read inside a nested block of an app block, at any depth,    *)
(* neither sets a property of the app nor ends the app block.               *)
(***************************************************************************)
NestedContentNeverRecorded ==
    simctl.n > 0 /\ simctl.line # "" /\ simctl.before.depth >= 2 =>
        /\ simctl.current_app = simctl.before.current_app
        /\ simctl.result = simctl.before.result
        /\ simctl.state # "LOOKING_FOR_APP"

(***************************************************************************)
(* C35: whenever mobile_use_device(device, deviceType) reports the device   *)
(* as selected, the current backend is an instance constructed by that      *)
(* call and bound to exactly that device id, and the device id of a         *)
(* backend instance never changes after construction.                       *)
(***************************************************************************)
SelectionConstructsBackend ==
    /\ [](dispatch.last.name = "mobile_use_device" /\ dispatch.last.msg = "selected"
            => /\ dispatch.robot = Len(dispatch.instances)
               /\ dispatch.robot > dispatch.last.robotBefore
               /\ dispatch.instances[dispatch.robot].device_id = dispatch.last.device)
    /\ [][\A i \in DOMAIN dispatch.instances :
             dispatch.instances'[i] = dispatch.instances[i]]_vars

(***************************************************************************)
(* C36: every backend implements the whole capability interface: when a     *)
(* backend is selected and its preconditions pass, dispatching a tool's     *)
(* operation reaches an existing operation of the backend or of the         *)
(* protocol client and never fails because the operation is missing.        *)
(***************************************************************************)
DispatchReachesExistingOperation ==
    (dispatch.last.robotBefore # 0 /\ dispatch.last.precond
       /\ dispatch.last.op # "none" /\ dispatch.last.logOk)
      => /\ ~dispatch.last.missing
         /\ dispatch.last.invoked = dispatch.last.op

(***************************************************************************)
(* C37: a tool other than mobile_list_available_devices and                 *)
(* mobile_use_device that is called while no device is selected invokes no  *)
(* backend operation and answers with the 'no device selected' actionable   *)
(* message; once a call reported a device as selected, the check passes     *)
(* for all later calls.                                                     *)
(***************************************************************************)
NoDeviceAnswersActionable ==
    dispatch.last.op # "none"
      => /\ dispatch.last.robotBefore = 0
              => /\ dispatch.last.invoked = "none"
                 /\ dispatch.last.content = "text"
                 /\ dispatch.last.msg = "no device"
                 /\ dispatch.last.hint
         /\ dispatch.reported => dispatch.last.excMsg # "no device"

(***************************************************************************)
(* C38: handle_call_tool never raises to its caller: an ActionableError     *)
(* raised in a tool is returned as a text answer with the error message     *)
(* and the fix-and-retry hint, every other exception as a text answer with  *)
(* the original message, and an error answer never contains an image.       *)
(***************************************************************************)
ExceptionsBecomeTextAnswers ==
    /\ dispatch.last.content # "raised"
    /\ dispatch.last.exc = "ActionableError"
         => /\ dispatch.last.content = "text"
            /\ dispatch.last.msg = dispatch.last.excMsg
            /\ dispatch.last.hint
    /\ dispatch.last.exc = "Exception"
         => /\ dispatch.last.content = "text"
            /\ dispatch.last.msg = dispatch.last.excMsg

(***************************************************************************)
(* C39: all calls of _get_ua2_server on one AndroidRobot give the same      *)
(* answer, the client or none, also a call of a concurrent task made while  *)
(* the first call's probe is suspended on its status request: the backend   *)
(* is probed at most once and no call is answered none while another call   *)
(* on the same backend is answered with the client.                         *)
(***************************************************************************)
Ua2ServerAnswersAgree ==
    LET given(t) ==
            CASE t.pc = "done" /\ t.res \in {"adb", "raised_adb"} /\ ~t.clientRaised
                   -> "none"
              [] t.pc \in {"await_create", "await_get"} \/ t.clientRaised
                   \/ t.res = "fast" -> "client"
              [] OTHER -> "pending"
    IN /\ \A i \in DOMAIN robots : robots[i].probes <= 1
       /\ \A s1, s2 \in TaskSlots :
            (tasks[s1].rb # 0 /\ tasks[s1].rb = tasks[s2].rb)
              => ~(given(tasks[s1]) = "client" /\ given(tasks[s2]) = "none")

(***************************************************************************)
(* C40: get_page_source(detailed=False) on Android with                     *)
(* ignore_unimportant_views configured turns ignoreUnimportantViews on      *)
(* only around one page-source fetch: on every return path, also when the   *)
(* fetch or a settings update raises, the setting is off when the function  *)
(* returns and at most one fetch was made with it on.                       *)
(***************************************************************************)
IgnoreUnimportantViewsReverted ==
    pageSrc.last.toggles
      => /\ ~pageSrc.setting
         /\ pageSrc.last.onFetches <= 1

=============================================================================
